---------------------------- MODULE Spec2Model ----------------------------
(***************************************************************************)
(* WikiSort ("block sort") as implemented in cpp-sort's                    *)
(* detail/block_sort.h: the toolbox functions, the four merges, the level  *)
(* Iterator and the merge driver Wiki::sort.                               *)
(*                                                                         *)
(* Elements are pairs <<key, id>>: key is what the projection returns, id  *)
(* is the position the element had in the input, so that stability can be  *)
(* observed.  The array and the cache are functions from 0-based indices,  *)
(* as in the source.  A memory record m = [a, c, ok, perm, held] carries   *)
(* the array, the cache and three observations made on the way: ok turns   *)
(* FALSE at an access outside the array or outside the written part of the *)
(* cache (or at a range that underflows), perm and held turn FALSE at a    *)
(* call of compare made while the array is not a permutation of the input  *)
(* (perm) or while some input element is neither in the array nor in the   *)
(* cache (held).  Its further fields whole, torn, did and calls record     *)
(* the remaining observations: the code paths taken (did) and the number   *)
(* of calls of compare (calls) among them; log lists what the step that    *)
(* ran last came past (the searches it called and the hints it gave them,  *)
(* the ranges it stripped, the blocks it tagged and dropped).              *)
(*                                                                         *)
(* Spec runs Wiki::sort on a whole input; Units calls the level-0 networks *)
(* and the three merges on their own, on every pair of sorted ranges of up *)
(* to MaxRun items.                                                        *)
(***************************************************************************)
EXTENDS Integers, Sequences, FiniteSets, TLC

\* Every key array of length 0..MaxLen over the keys 1..MaxKey is an input.
MaxLen == 7
MaxKey == 3
\* Arrays of MaxLen+1..MaxMid items are inputs when each of their level-0
\* ranges is in order; arrays of MaxMid+1..MaxBig items when they follow a
\* pattern (i * stride) % mod, stride <= MaxStride, mod <= MaxMod or mod >= n.
MaxMid == 9
MaxBig == 20
MaxStride == 3
MaxMod == 5
\* Patterned arrays of 8 * min_level..MaxWide items, long enough for a level
\* to follow a double merge, are inputs with the program's cache_size.
MaxWide == 33
\* The cache sizes 0..MaxCache are tried besides the program's cache_size.
MaxCache == 6
\* static constexpr std::size_t cache_size = 512;
cache_size == 512
\* Wiki::Iterator iterator (size, 4);
min_level == 4

VARIABLES
    input,      \* the key array handed to sort, never changed
    C,          \* the cache size this run is compiled with
    array,      \* T *array
    cache,      \* T cache[cache_size]: the cells written so far
    iterator,   \* Wiki::Iterator
    ranges,     \* the ranges nextRange() has returned at this level since begin()
    pc,         \* where the driver stands
    sl,         \* the locals of a slow-path level (block_size, buffers, pull)
    ok,         \* no access out of bounds so far
    perm,       \* every compare so far saw a permutation of the input
    held,       \* every compare so far saw each input element in array or cache
    whole,      \* every compare of two array cells so far saw a permutation
    torn,       \* the array as the first compare that saw no permutation saw it
    did,        \* the paths and helpers that have run so far
    calls,      \* the calls of compare observed so far (a search counts as one)
    log,        \* what the step last taken on the array and the cache observed on its way
    lower,      \* the iterator as it stood at the level below, before nextLevel()
    quads       \* the groups of four ranges the double merge of this pass has merged

vars ==
    <<input, C, array, cache, iterator, ranges, pc, sl, ok, perm, held, whole, torn, did,
      calls, log, lower, quads>>

----------------------------------------------------------------------------
(* Elements, comparator, projection *)

Keys == 1..MaxKey
Garbage == <<0, -1>>
proj(e) == e[1]
less(x, y) == x < y
compare(x, y) == less(x, y)

Min(x, y) == IF x < y THEN x ELSE y
Max(x, y) == IF x > y THEN x ELSE y

\* struct Range
Range(s, e) == [start |-> s, end |-> e]
length(r) == r.end - r.start

----------------------------------------------------------------------------
(* Memory record *)

Ids(f) == {f[i][2] : i \in DOMAIN f}
IsPermutation(a) == Ids(a) = DOMAIN a
Holds(a, c) == DOMAIN a \subseteq (Ids(a) \cup Ids(c))

RdA(m, i) == IF i \in DOMAIN m.a THEN m.a[i] ELSE Garbage
RdC(m, i) == IF i \in DOMAIN m.c THEN m.c[i] ELSE Garbage

Check(m, cond) == IF cond THEN m ELSE [m EXCEPT !.ok = FALSE]

\* the path or helper named what has run on m
Did(m, what) == [m EXCEPT !.did = @ \cup {what}]

\* the step running on m has come past e
Note(m, e) == [m EXCEPT !.log = Append(@, e)]

\* the step running on m calls the search named what on range with the hint unique
Hint(m, what, range, unique) ==
    Note(m, [what |-> what, range |-> range, unique |-> unique])

\* a call of compare that reads the array cells AI and the cache cells CI
AtCompare(m, AI, CI) ==
    [m EXCEPT !.ok = @ /\ AI \subseteq DOMAIN m.a /\ CI \subseteq DOMAIN m.c,
              !.perm = @ /\ IsPermutation(m.a),
              !.held = @ /\ Holds(m.a, m.c),
              !.whole = @ /\ (CI = {} => IsPermutation(m.a)),
              !.torn = IF m.perm /\ ~IsPermutation(m.a) THEN m.a ELSE @,
              !.calls = @ + 1]

\* std::iter_swap(array + i, array + j)
SwapCells(m, i, j) ==
    IF i \in DOMAIN m.a /\ j \in DOMAIN m.a
    THEN [m EXCEPT !.a = [@ EXCEPT ![i] = m.a[j], ![j] = m.a[i]]]
    ELSE [m EXCEPT !.ok = FALSE]

\* a source range [s, e) read from f, written to cells d, d+1, ... of g
Overwrite(g, f, s, e, d) ==
    [k \in DOMAIN g \cup (d .. d + (e - s) - 1) |->
        IF k >= d /\ k < d + (e - s) THEN f[s + (k - d)] ELSE g[k]]

\* faulty variant: the copy into the cache stops one item short
CopyToCacheShort(m, cap, s, e, d) ==
    IF s >= e THEN m
    ELSE IF s \in DOMAIN m.a /\ (e - 1) \in DOMAIN m.a /\ d >= 0 /\ d + (e - s) <= cap
    THEN [m EXCEPT !.c = Overwrite(m.c, m.a, s, e - 1, d)]
    ELSE [m EXCEPT !.ok = FALSE]

\* std::copy(&array[s], &array[e], &cache[d])
CopyToCache(m, cap, s, e, d) ==
    IF s = e THEN m
    ELSE IF s < e /\ s \in DOMAIN m.a /\ (e - 1) \in DOMAIN m.a /\ d >= 0 /\ d + (e - s) <= cap
    THEN [m EXCEPT !.c = Overwrite(m.c, m.a, s, e, d)]
    ELSE [m EXCEPT !.ok = FALSE]

\* faulty variant: the copy out of the cache stops one item short
CopyFromCacheShort(m, s, e, d) ==
    IF s >= e THEN m
    ELSE IF s \in DOMAIN m.c /\ (e - 1) \in DOMAIN m.c
            /\ d \in DOMAIN m.a /\ (d + (e - s) - 1) \in DOMAIN m.a
    THEN [m EXCEPT !.a = Overwrite(m.a, m.c, s, e - 1, d)]
    ELSE [m EXCEPT !.ok = FALSE]

\* std::copy(&cache[s], &cache[e], &array[d])
CopyFromCache(m, s, e, d) ==
    IF s = e THEN m
    ELSE IF s < e /\ (s .. e - 1) \subseteq DOMAIN m.c /\ d \in DOMAIN m.a /\ (d + (e - s) - 1) \in DOMAIN m.a
    THEN [m EXCEPT !.a = Overwrite(m.a, m.c, s, e, d)]
    ELSE [m EXCEPT !.ok = FALSE]

----------------------------------------------------------------------------
(* Toolbox *)

RECURSIVE BitOr(_, _)
BitOr(x, y) ==
    IF x = 0 THEN y
    ELSE IF y = 0 THEN x
    ELSE 2 * BitOr(x \div 2, y \div 2) + (IF x % 2 = 1 \/ y % 2 = 1 THEN 1 ELSE 0)

\* x >> i
RECURSIVE ShiftRight(_, _)
ShiftRight(x, i) == IF i = 0 \/ x = 0 THEN x ELSE ShiftRight(x \div 2, i - 1)

\* for (i = 1; i <= bound; i <<= 1) x |= (x >> i), bound = digits / 2 = 32
RECURSIVE Smear(_, _)
Smear(x, i) == IF i > 32 \/ x = 0 THEN x ELSE Smear(BitOr(x, ShiftRight(x, i)), 2 * i)

\* faulty variant: the power of two above x, not the one below
FloorPowerOfTwoCeil(x) == LET y == Smear(x, 1) IN y + 1

\* FloorPowerOfTwo: x |= (x >> i) for i = 1, 2, 4, ..., then x - (x >> 1)
FloorPowerOfTwo(x) == LET y == Smear(x, 1) IN y - (y \div 2)

\* Rotate(array, amount, range): std::rotate(start, start + amount, end)
Rotate(m, amount, r) ==
    IF r.start = r.end THEN Check(m, amount = 0)
    ELSE IF r.start < r.end /\ r.start \in DOMAIN m.a /\ (r.end - 1) \in DOMAIN m.a
            /\ amount >= 0 /\ amount <= r.end - r.start
    THEN [m EXCEPT !.a = [k \in DOMAIN m.a |->
            IF k >= r.start /\ k < r.end
            THEN m.a[r.start + ((k - r.start + amount) % (r.end - r.start))]
            ELSE m.a[k]]]
    ELSE [m EXCEPT !.ok = FALSE]

\* BlockSwap(array, start1, start2, block_size): std::swap_ranges
BlockSwap(m, start1, start2, n) ==
    IF n = 0 THEN m
    ELSE IF n > 0 /\ start1 \in DOMAIN m.a /\ (start1 + n - 1) \in DOMAIN m.a
            /\ start2 \in DOMAIN m.a /\ (start2 + n - 1) \in DOMAIN m.a
            /\ (start1 + n <= start2 \/ start2 + n <= start1 \/ start1 = start2)
    THEN [m EXCEPT !.a = [k \in DOMAIN m.a |->
            IF k >= start1 /\ k < start1 + n THEN m.a[start2 + (k - start1)]
            ELSE IF k >= start2 /\ k < start2 + n THEN m.a[start1 + (k - start2)]
            ELSE m.a[k]]]
    ELSE [m EXCEPT !.ok = FALSE]


----------------------------------------------------------------------------
(* Searches.  They only read: each takes the array a and the projected     *)
(* value v and returns [i |-> the index found, ok |-> every probe was      *)
(* inside the array].                                                      *)

Found(i, fine) == [i |-> i, ok |-> fine]
KeyAt(a, k) == IF k \in DOMAIN a THEN proj(a[k]) ELSE proj(Garbage)

\* detail::lower_bound(first, first + len, v, compare, projection)
RECURSIVE lower_bound(_, _, _, _, _)
lower_bound(a, first, len, v, fine) ==
    IF len <= 0 THEN Found(first, fine)
    ELSE LET half == len \div 2
             mid == first + half
         IN IF compare(KeyAt(a, mid), v)
            THEN lower_bound(a, mid + 1, len - half - 1, v, fine /\ mid \in DOMAIN a)
            ELSE lower_bound(a, first, half, v, fine /\ mid \in DOMAIN a)

\* detail::upper_bound(first, first + len, v, compare, projection)
RECURSIVE upper_bound(_, _, _, _, _)
upper_bound(a, first, len, v, fine) ==
    IF len <= 0 THEN Found(first, fine)
    ELSE LET half == len \div 2
             mid == first + half
         IN IF ~compare(v, KeyAt(a, mid))
            THEN upper_bound(a, mid + 1, len - half - 1, v, fine /\ mid \in DOMAIN a)
            ELSE upper_bound(a, first, half, v, fine /\ mid \in DOMAIN a)

BinaryFirst(a, v, range) ==
    lower_bound(a, range.start, length(range), v, range.start <= range.end)

BinaryLast(a, v, range) ==
    upper_bound(a, range.start, length(range), v, range.start <= range.end)

\* skip = std::max(range.length()/unique, (std::size_t)1)
Skip(range, unique) == Max(length(range) \div unique, 1)

RECURSIVE FindFirstForwardLoop(_, _, _, _, _, _)
FindFirstForwardLoop(a, v, range, skip, index, fine) ==
    IF compare(KeyAt(a, index - 1), v)
    THEN IF index >= range.end - skip
         THEN LET r == BinaryFirst(a, v, Range(index, range.end))
              IN Found(r.i, r.ok /\ fine /\ (index - 1) \in DOMAIN a)
         ELSE FindFirstForwardLoop(a, v, range, skip, index + skip,
                                   fine /\ (index - 1) \in DOMAIN a)
    ELSE LET r == BinaryFirst(a, v, Range(index - skip, index))
         IN Found(r.i, r.ok /\ fine /\ (index - 1) \in DOMAIN a)

FindFirstForward(a, v, range, unique) ==
    IF length(range) = 0 THEN Found(range.start, TRUE)
    ELSE IF length(range) < 0 \/ unique <= 0 THEN Found(range.start, FALSE)
    ELSE FindFirstForwardLoop(a, v, range, Skip(range, unique),
                              range.start + Skip(range, unique), TRUE)

RECURSIVE FindLastForwardLoop(_, _, _, _, _, _)
FindLastForwardLoop(a, v, range, skip, index, fine) ==
    IF ~compare(v, KeyAt(a, index - 1))
    THEN IF index >= range.end - skip
         THEN LET r == BinaryLast(a, v, Range(index, range.end))
              IN Found(r.i, r.ok /\ fine /\ (index - 1) \in DOMAIN a)
         ELSE FindLastForwardLoop(a, v, range, skip, index + skip,
                                  fine /\ (index - 1) \in DOMAIN a)
    ELSE LET r == BinaryLast(a, v, Range(index - skip, index))
         IN Found(r.i, r.ok /\ fine /\ (index - 1) \in DOMAIN a)

FindLastForward(a, v, range, unique) ==
    IF length(range) = 0 THEN Found(range.start, TRUE)
    ELSE IF length(range) < 0 \/ unique <= 0 THEN Found(range.start, FALSE)
    ELSE FindLastForwardLoop(a, v, range, Skip(range, unique),
                             range.start + Skip(range, unique), TRUE)

RECURSIVE FindFirstBackwardLoop(_, _, _, _, _, _)
FindFirstBackwardLoop(a, v, range, skip, index, fine) ==
    IF index > range.start /\ ~compare(KeyAt(a, index - 1), v)
    THEN IF index < range.start + skip
         THEN LET r == BinaryFirst(a, v, Range(range.start, index))
              IN Found(r.i, r.ok /\ fine /\ (index - 1) \in DOMAIN a)
         ELSE FindFirstBackwardLoop(a, v, range, skip, index - skip,
                                    fine /\ (index - 1) \in DOMAIN a)
    ELSE LET r == BinaryFirst(a, v, Range(index, index + skip))
         IN Found(r.i, r.ok /\ fine /\ (index > range.start => (index - 1) \in DOMAIN a))

FindFirstBackward(a, v, range, unique) ==
    IF length(range) = 0 THEN Found(range.start, TRUE)
    ELSE IF length(range) < 0 \/ unique <= 0 THEN Found(range.start, FALSE)
    ELSE FindFirstBackwardLoop(a, v, range, Skip(range, unique),
                               range.end - Skip(range, unique), TRUE)

RECURSIVE FindLastBackwardLoop(_, _, _, _, _, _)
\* faulty variant: the bracket is resolved with BinaryFirst
FindLastBackwardLoopFirst(a, v, range, skip, index, fine) ==
    IF index > range.start /\ compare(v, KeyAt(a, index - 1))
    THEN IF index < range.start + skip
         THEN LET r == BinaryLast(a, v, Range(range.start, index))
              IN Found(r.i, r.ok /\ fine /\ (index - 1) \in DOMAIN a)
         ELSE FindLastBackwardLoop(a, v, range, skip, index - skip,
                                   fine /\ (index - 1) \in DOMAIN a)
    ELSE LET r == BinaryFirst(a, v, Range(index, index + skip))
         IN Found(r.i, r.ok /\ fine /\ (index > range.start => (index - 1) \in DOMAIN a))

FindLastBackwardLoop(a, v, range, skip, index, fine) ==
    IF index > range.start /\ compare(v, KeyAt(a, index - 1))
    THEN IF index < range.start + skip
         THEN LET r == BinaryLast(a, v, Range(range.start, index))
              IN Found(r.i, r.ok /\ fine /\ (index - 1) \in DOMAIN a)
         ELSE FindLastBackwardLoop(a, v, range, skip, index - skip,
                                   fine /\ (index - 1) \in DOMAIN a)
    ELSE LET r == BinaryLast(a, v, Range(index, index + skip))
         IN Found(r.i, r.ok /\ fine /\ (index > range.start => (index - 1) \in DOMAIN a))

FindLastBackward(a, v, range, unique) ==
    IF length(range) = 0 THEN Found(range.start, TRUE)
    ELSE IF length(range) < 0 \/ unique <= 0 THEN Found(range.start, FALSE)
    ELSE FindLastBackwardLoop(a, v, range, Skip(range, unique),
                              range.end - Skip(range, unique), TRUE)

\* the state of a search is the state of the memory it ran on: a search of a
\* non-empty range calls compare at least once
AtSearch(m, range, r) ==
    IF length(range) = 0 THEN m
    ELSE [m EXCEPT !.ok = @ /\ r.ok,
                   !.perm = @ /\ IsPermutation(m.a),
                   !.held = @ /\ Holds(m.a, m.c),
                   !.whole = @ /\ IsPermutation(m.a),
                   !.torn = IF m.perm /\ ~IsPermutation(m.a) THEN m.a ELSE @]

----------------------------------------------------------------------------
(* Merges *)

\* *insert_index = value, into the cache (of cap cells) or into the array
WriteCache(m, cap, d, e) ==
    IF d >= 0 /\ d < cap
    THEN [m EXCEPT !.c = [k \in DOMAIN m.c \cup {d} |-> IF k = d THEN e ELSE m.c[k]]]
    ELSE [m EXCEPT !.ok = FALSE]

WriteArray(m, d, e) ==
    IF d \in DOMAIN m.a THEN [m EXCEPT !.a = [@ EXCEPT ![d] = e]]
    ELSE [m EXCEPT !.ok = FALSE]

\* MergeInto(array, A, B, compare, projection, &cache[into]):
\* while (true) { if (!compare(proj(*B_index), proj(*A_index))) ... }
RECURSIVE MergeIntoCacheLoop(_, _, _, _, _, _, _)
\* faulty variant: B's item is taken unless A's is less
MergeIntoCacheLoopTiesToB(m, cap, A_index, A_last, B_index, B_last, insert_index) ==
    LET m1 == AtCompare(m, {B_index, A_index}, {})
    IN IF compare(proj(RdA(m, A_index)), proj(RdA(m, B_index)))
       THEN LET m2 == WriteCache(m1, cap, insert_index, RdA(m, A_index))
            IN IF A_index + 1 = A_last
               THEN CopyToCache(m2, cap, B_index, B_last, insert_index + 1)
               ELSE MergeIntoCacheLoop(m2, cap, A_index + 1, A_last, B_index, B_last,
                                       insert_index + 1)
       ELSE LET m2 == WriteCache(m1, cap, insert_index, RdA(m, B_index))
            IN IF B_index + 1 = B_last
               THEN CopyToCache(m2, cap, A_index, A_last, insert_index + 1)
               ELSE MergeIntoCacheLoop(m2, cap, A_index, A_last, B_index + 1, B_last,
                                       insert_index + 1)

MergeIntoCacheLoop(m, cap, A_index, A_last, B_index, B_last, insert_index) ==
    LET m1 == AtCompare(m, {B_index, A_index}, {})
    IN IF ~compare(proj(RdA(m, B_index)), proj(RdA(m, A_index)))
       THEN LET m2 == WriteCache(m1, cap, insert_index, RdA(m, A_index))
            IN IF A_index + 1 = A_last
               THEN CopyToCache(m2, cap, B_index, B_last, insert_index + 1)
               ELSE MergeIntoCacheLoop(m2, cap, A_index + 1, A_last, B_index, B_last,
                                       insert_index + 1)
       ELSE LET m2 == WriteCache(m1, cap, insert_index, RdA(m, B_index))
            IN IF B_index + 1 = B_last
               THEN CopyToCache(m2, cap, A_index, A_last, insert_index + 1)
               ELSE MergeIntoCacheLoop(m2, cap, A_index, A_last, B_index + 1, B_last,
                                       insert_index + 1)

MergeIntoCache(m, cap, A, B, into) ==
    MergeIntoCacheLoop(Did(m, "MergeIntoCache"), cap, A.start, A.end, B.start, B.end, into)

\* MergeInto(cache, A3, B3, compare, projection, &array[into])
RECURSIVE MergeIntoArrayLoop(_, _, _, _, _, _)
MergeIntoArrayLoop(m, A_index, A_last, B_index, B_last, insert_index) ==
    LET m1 == AtCompare(m, {}, {B_index, A_index})
    IN IF ~compare(proj(RdC(m, B_index)), proj(RdC(m, A_index)))
       THEN LET m2 == WriteArray(m1, insert_index, RdC(m, A_index))
            IN IF A_index + 1 = A_last
               THEN CopyFromCache(m2, B_index, B_last, insert_index + 1)
               ELSE MergeIntoArrayLoop(m2, A_index + 1, A_last, B_index, B_last,
                                       insert_index + 1)
       ELSE LET m2 == WriteArray(m1, insert_index, RdC(m, B_index))
            IN IF B_index + 1 = B_last
               THEN CopyFromCache(m2, A_index, A_last, insert_index + 1)
               ELSE MergeIntoArrayLoop(m2, A_index, A_last, B_index + 1, B_last,
                                       insert_index + 1)

MergeIntoArray(m, A, B, into) ==
    MergeIntoArrayLoop(Did(m, "MergeIntoArray"), A.start, A.end, B.start, B.end, into)

\* MergeExternal: A is in cache[0 .. A.length()), B in the array, output from A.start
RECURSIVE MergeExternalLoop(_, _, _, _, _, _)
\* faulty variant: A's item is taken only when it is less than B's
MergeExternalLoopTiesToB(m, A_index, A_last, B_index, B_last, insert_index) ==
    LET m1 == AtCompare(m, {B_index}, {A_index})
    IN IF compare(proj(RdC(m, A_index)), proj(RdA(m, B_index)))
       THEN LET m2 == WriteArray(m1, insert_index, RdC(m, A_index))
            IN IF A_index + 1 = A_last
               THEN m2
               ELSE MergeExternalLoop(m2, A_index + 1, A_last, B_index, B_last,
                                      insert_index + 1)
       ELSE LET m2 == WriteArray(m1, insert_index, RdA(m, B_index))
            IN IF B_index + 1 = B_last
               THEN CopyFromCache(m2, A_index, A_last, insert_index + 1)
               ELSE MergeExternalLoop(m2, A_index, A_last, B_index + 1, B_last,
                                      insert_index + 1)

MergeExternalLoop(m, A_index, A_last, B_index, B_last, insert_index) ==
    LET m1 == AtCompare(m, {B_index}, {A_index})
    IN IF ~compare(proj(RdA(m, B_index)), proj(RdC(m, A_index)))
       THEN LET m2 == WriteArray(m1, insert_index, RdC(m, A_index))
            IN IF A_index + 1 = A_last
               THEN m2
               ELSE MergeExternalLoop(m2, A_index + 1, A_last, B_index, B_last,
                                      insert_index + 1)
       ELSE LET m2 == WriteArray(m1, insert_index, RdA(m, B_index))
            IN IF B_index + 1 = B_last
               THEN CopyFromCache(m2, A_index, A_last, insert_index + 1)
               ELSE MergeExternalLoop(m2, A_index, A_last, B_index + 1, B_last,
                                      insert_index + 1)

MergeExternal(m, A, B) ==
    IF length(B) > 0 /\ length(A) > 0
    THEN MergeExternalLoop(Did(m, "MergeExternal"), 0, length(A), B.start, B.end, A.start)
    ELSE CopyFromCache(Check(m, length(A) >= 0 /\ length(B) >= 0), 0, length(A), A.start)

\* MergeInternal: A was swapped into array[buffer.start ..), the merge swaps
RECURSIVE MergeInternalLoop(_, _, _, _, _, _)
\* faulty variant: when B runs out, the rest of A is left in the buffer
MergeInternalLoopNoTail(m, A_index, A_last, B_index, B_last, insert_index) ==
    LET m1 == AtCompare(m, {B_index, A_index}, {})
    IN IF ~compare(proj(RdA(m, B_index)), proj(RdA(m, A_index)))
       THEN LET m2 == SwapCells(m1, insert_index, A_index)
            IN IF A_index + 1 = A_last
               THEN m2
               ELSE MergeInternalLoop(m2, A_index + 1, A_last, B_index, B_last,
                                      insert_index + 1)
       ELSE LET m2 == SwapCells(m1, insert_index, B_index)
            IN IF B_index + 1 = B_last
               THEN m2
               ELSE MergeInternalLoop(m2, A_index, A_last, B_index + 1, B_last,
                                      insert_index + 1)

MergeInternalLoop(m, A_index, A_last, B_index, B_last, insert_index) ==
    LET m1 == AtCompare(m, {B_index, A_index}, {})
    IN IF ~compare(proj(RdA(m, B_index)), proj(RdA(m, A_index)))
       THEN LET m2 == SwapCells(m1, insert_index, A_index)
            IN IF A_index + 1 = A_last
               THEN m2
               ELSE MergeInternalLoop(m2, A_index + 1, A_last, B_index, B_last,
                                      insert_index + 1)
       ELSE LET m2 == SwapCells(m1, insert_index, B_index)
            IN IF B_index + 1 = B_last
               THEN BlockSwap(m2, A_index, insert_index + 1, A_last - A_index)
               ELSE MergeInternalLoop(m2, A_index, A_last, B_index + 1, B_last,
                                      insert_index + 1)

\* faulty variant: with an empty A or B nothing is swapped back from the buffer
MergeInternalOnlyLoop(m, A, B, buffer) ==
    IF length(B) > 0 /\ length(A) > 0
    THEN MergeInternalLoop(Did(m, "MergeInternal"), buffer.start, buffer.start + length(A),
                           B.start, B.end, A.start)
    ELSE Check(m, length(A) >= 0 /\ length(B) >= 0)

MergeInternal(m, A, B, buffer) ==
    IF length(B) > 0 /\ length(A) > 0
    THEN MergeInternalLoop(Did(m, "MergeInternal"), buffer.start, buffer.start + length(A),
                           B.start, B.end, A.start)
    ELSE BlockSwap(Check(m, length(A) >= 0 /\ length(B) >= 0),
                   buffer.start, A.start, length(A))

\* MergeInPlace: binary search into B, rotate A into place, repeat
RECURSIVE MergeInPlaceLoop(_, _, _)
\* faulty variant: A is rotated behind the last item of B that is not greater
MergeInPlaceLoopLast(m, A, B) ==
    LET f   == BinaryLast(m.a, proj(RdA(m, A.start)), B)
        mid == f.i
        amount == mid - A.end
        m1  == Check(AtSearch(m, B, f), A.start \in DOMAIN m.a)
        m2  == Rotate(m1, length(A), Range(A.start, mid))
        A1  == Range(A.start + amount, mid)
        l   == BinaryLast(m2.a, proj(RdA(m2, A1.start)), A1)
        m3  == Check(AtSearch(m2, A1, l), A1.start \in DOMAIN m2.a)
        A2  == Range(l.i, A1.end)
    IN IF B.end = mid THEN m2
       ELSE IF length(A2) = 0 THEN m3
       ELSE MergeInPlaceLoop(m3, A2, Range(mid, B.end))

MergeInPlaceLoop(m, A, B) ==
    LET f   == BinaryFirst(m.a, proj(RdA(m, A.start)), B)
        mid == f.i
        amount == mid - A.end
        m1  == Check(AtSearch(m, B, f), A.start \in DOMAIN m.a)
        m2  == Rotate(m1, length(A), Range(A.start, mid))
        A1  == Range(A.start + amount, mid)
        l   == BinaryLast(m2.a, proj(RdA(m2, A1.start)), A1)
        m3  == Check(AtSearch(m2, A1, l), A1.start \in DOMAIN m2.a)
        A2  == Range(l.i, A1.end)
    IN IF B.end = mid THEN m2
       ELSE IF length(A2) = 0 THEN m3
       ELSE MergeInPlaceLoop(m3, A2, Range(mid, B.end))

MergeInPlace(m, A, B) ==
    IF length(A) = 0 \/ length(B) = 0 THEN m
    ELSE MergeInPlaceLoop(Did(Check(m, length(A) > 0 /\ length(B) > 0), "MergeInPlace"), A, B)

----------------------------------------------------------------------------
(* class Iterator *)

NoIterator ==
    [size |-> 0, power_of_two |-> 0, decimal |-> 0, numerator |-> 0,
     denominator |-> 0, decimal_step |-> 0, numerator_step |-> 0]

\* Iterator(std::size_t size, std::size_t min_level)
Iterator(size, min) ==
    LET p == FloorPowerOfTwo(size)
        d == p \div min
    IN [size |-> size, power_of_two |-> p, decimal |-> 0, numerator |-> 0,
        denominator |-> d, decimal_step |-> size \div d, numerator_step |-> size % d]

begin(it) == [it EXCEPT !.numerator = 0, !.decimal = 0]

\* faulty variant: the carry is taken only once the numerator is past the denominator
nextRangeLate(it) ==
    IF it.numerator + it.numerator_step > it.denominator
    THEN [it EXCEPT !.decimal = it.decimal + it.decimal_step + 1,
                    !.numerator = it.numerator + it.numerator_step - it.denominator]
    ELSE [it EXCEPT !.decimal = it.decimal + it.decimal_step,
                    !.numerator = it.numerator + it.numerator_step]

\* faulty variant: the carry adds the numerator to decimal, not one
nextRangeCarryAll(it) ==
    IF it.numerator + it.numerator_step >= it.denominator
    THEN [it EXCEPT !.decimal = it.decimal + it.decimal_step
                                    + it.numerator + it.numerator_step,
                    !.numerator = it.numerator + it.numerator_step - it.denominator]
    ELSE [it EXCEPT !.decimal = it.decimal + it.decimal_step,
                    !.numerator = it.numerator + it.numerator_step]

\* the iterator after nextRange(); the range returned is NextRange(it)
nextRange(it) ==
    IF it.numerator + it.numerator_step >= it.denominator
    THEN [it EXCEPT !.decimal = it.decimal + it.decimal_step + 1,
                    !.numerator = it.numerator + it.numerator_step - it.denominator]
    ELSE [it EXCEPT !.decimal = it.decimal + it.decimal_step,
                    !.numerator = it.numerator + it.numerator_step]

NextRange(it) == Range(it.decimal, nextRange(it).decimal)

finished(it) == it.decimal >= it.size

\* faulty variant: nextLevel() doubles the fraction but not the whole part
nextLevelStuck(it) ==
    IF it.numerator_step + it.numerator_step >= it.denominator
    THEN [it EXCEPT !.numerator_step = it.numerator_step + it.numerator_step - it.denominator]
    ELSE [it EXCEPT !.numerator_step = it.numerator_step + it.numerator_step]

\* faulty variant: nextLevel() doubles both parts but never carries the fraction over
nextLevelNoCarry(it) ==
    [it EXCEPT !.decimal_step = it.decimal_step + it.decimal_step,
               !.numerator_step = it.numerator_step + it.numerator_step]

\* the iterator after nextLevel(); it returns NextLevelResult(it)
nextLevel(it) ==
    IF it.numerator_step + it.numerator_step >= it.denominator
    THEN [it EXCEPT !.decimal_step = it.decimal_step + it.decimal_step + 1,
                    !.numerator_step = it.numerator_step + it.numerator_step - it.denominator]
    ELSE [it EXCEPT !.decimal_step = it.decimal_step + it.decimal_step,
                    !.numerator_step = it.numerator_step + it.numerator_step]

NextLevelResult(it) == nextLevel(it).decimal_step < it.size

\* Iterator::length()
iterator_length(it) == it.decimal_step

----------------------------------------------------------------------------
(* The driver's state *)

mem ==
    [a |-> array, c |-> cache, ok |-> ok, perm |-> perm, held |-> held, whole |-> whole,
     torn |-> torn, did |-> did, calls |-> calls, log |-> << >>]

Store(m) ==
    /\ array' = m.a
    /\ cache' = m.c
    /\ ok' = m.ok
    /\ perm' = m.perm
    /\ held' = m.held
    /\ whole' = m.whole
    /\ torn' = m.torn
    /\ did' = m.did
    /\ calls' = m.calls
    /\ log' = m.log

size == Cardinality(DOMAIN input)

NoPull == [from |-> 0, to |-> 0, count |-> 0, range |-> Range(0, 0)]

\* the locals of a slow-path level, as they stand outside of one
NoSlow ==
    [block_size |-> 0, buffer_size |-> 0, buffer1 |-> Range(0, 0), buffer2 |-> Range(0, 0),
     pull |-> <<NoPull, NoPull>>, pull_index |-> 0, find |-> 0, find_separately |-> FALSE]

CacheSizes == (0 .. MaxCache) \cup {cache_size}

\* the state sort(first, last, compare, projection) starts in, compiled with
\* a cache of c cells, on the key array k
Start(k, c) ==
    /\ input = k
    /\ C = c
    /\ array = [i \in DOMAIN k |-> <<k[i], i>>]
    /\ cache = << >>
    /\ iterator = NoIterator
    /\ ranges = << >>
    /\ pc = "start"
    /\ sl = NoSlow
    /\ ok = TRUE
    /\ perm = TRUE
    /\ held = TRUE
    /\ whole = TRUE
    /\ torn = << >>
    /\ did = {}
    /\ calls = 0
    /\ log = << >>
    /\ lower = NoIterator
    /\ quads = << >>

\* the level-0 ranges of an array of n items
RECURSIVE SlicesFrom(_)
SlicesFrom(it) ==
    IF finished(it) THEN << >> ELSE <<NextRange(it)>> \o SlicesFrom(nextRange(it))
Slices(n) == SlicesFrom(Iterator(n, min_level))

SortedRuns(len) ==
    {f \in [0 .. len - 1 -> Keys] : \A i \in 0 .. len - 2 : f[i] <= f[i + 1]}

\* the key arrays whose first j level-0 ranges are each in order
RECURSIVE SliceSorted(_, _)
SliceSorted(rs, j) ==
    IF j = 0 THEN {<< >>}
    ELSE {[i \in 0 .. rs[j].end - 1 |-> IF i < rs[j].start THEN g[i] ELSE f[i - rs[j].start]] :
            g \in SliceSorted(rs, j - 1), f \in SortedRuns(length(rs[j]))}

\* key (x * stride) % mod + 1 at position x, counted from the front or the back
Pattern(n, stride, mod, back) ==
    [i \in 0 .. n - 1 |-> (((IF back THEN n - 1 - i ELSE i) * stride) % mod) + 1]

\* every key array of at most MaxLen items, with the program's cache
InitSmall ==
    \E n \in 0 .. MaxLen :
    \E k \in [0 .. n - 1 -> Keys] :
        Start(k, cache_size)

\* arrays of up to MaxMid items whose level-0 ranges are in order, every cache size
InitMid ==
    \E n \in MaxLen + 1 .. MaxMid :
    \E k \in SliceSorted(Slices(n), Len(Slices(n))) :
    \E c \in CacheSizes :
        Start(k, c)

\* patterned arrays of up to MaxBig items, every cache size
InitBig ==
    \E n \in MaxMid + 1 .. MaxBig :
    \E stride \in 1 .. MaxStride :
    \E mod \in (1 .. MaxMod) \cup {n, n + 1} :
    \E back \in BOOLEAN :
    \E c \in CacheSizes :
        Start(Pattern(n, stride, mod, back), c)

\* patterned arrays of up to MaxWide items, with the program's cache
InitWide ==
    \E n \in 8 * min_level .. MaxWide :
    \E stride \in 1 .. MaxStride :
    \E mod \in (1 .. MaxMod) \cup {n, n + 1} :
    \E back \in BOOLEAN :
        Start(Pattern(n, stride, mod, back), cache_size)

Init == InitSmall \/ InitMid \/ InitBig \/ InitWide

\* compare(proj(array[i]), proj(array[j]))
LessAt(m, i, j) == compare(proj(RdA(m, i)), proj(RdA(m, j)))
\* compare(proj(cache[i]), proj(cache[j]))
LessCache(m, i, j) == compare(proj(RdC(m, i)), proj(RdC(m, j)))

----------------------------------------------------------------------------
(* size < 4 *)

\* faulty variant: after the second swap the first pair is not looked at again
Sort3OnePass(m) ==
    LET m1 == AtCompare(m, {1, 0}, {})
        m2 == IF LessAt(m, 1, 0) THEN SwapCells(m1, 0, 1) ELSE m1
        m3 == AtCompare(m2, {2, 1}, {})
    IN IF LessAt(m2, 2, 1) THEN SwapCells(m3, 1, 2) ELSE m3

Sort3(m) ==
    LET m1 == AtCompare(m, {1, 0}, {})
        m2 == IF LessAt(m, 1, 0) THEN SwapCells(m1, 0, 1) ELSE m1
        m3 == AtCompare(m2, {2, 1}, {})
    IN IF LessAt(m2, 2, 1)
       THEN LET m4 == AtCompare(SwapCells(m3, 1, 2), {1, 0}, {})
            IN IF LessAt(m4, 1, 0) THEN SwapCells(m4, 0, 1) ELSE m4
       ELSE m3

Sort2(m) ==
    LET m1 == AtCompare(m, {1, 0}, {})
    IN IF LessAt(m, 1, 0) THEN SwapCells(m1, 0, 1) ELSE m1

SortSmall ==
    /\ pc = "start"
    /\ size < 4
    /\ Store(Did(IF size = 3 THEN Sort3(mem) ELSE IF size = 2 THEN Sort2(mem) ELSE mem,
                 "small"))
    /\ pc' = "done"
    /\ UNCHANGED <<input, C, lower, quads, iterator, ranges, sl>>

----------------------------------------------------------------------------
(* groups of 4-8 items: sorting networks made stable by the order[] tags *)

MakeIterator ==
    /\ pc = "start"
    /\ size >= 4
    /\ iterator' = Iterator(size, min_level)
    /\ pc' = "level0"
    /\ UNCHANGED <<input, C, lower, quads, array, cache, ranges, sl, ok, perm, held, whole, torn, did, calls, log>>

Network(n) ==
    CASE n = 8 -> << <<0, 1>>, <<2, 3>>, <<4, 5>>, <<6, 7>>,
                     <<0, 2>>, <<1, 3>>, <<4, 6>>, <<5, 7>>,
                     <<1, 2>>, <<5, 6>>, <<0, 4>>, <<3, 7>>,
                     <<1, 5>>, <<2, 6>>,
                     <<1, 4>>, <<3, 6>>,
                     <<2, 4>>, <<3, 5>>,
                     <<3, 4>> >>
      [] n = 7 -> << <<1, 2>>, <<3, 4>>, <<5, 6>>,
                     <<0, 2>>, <<3, 5>>, <<4, 6>>,
                     <<0, 1>>, <<4, 5>>, <<2, 6>>,
                     <<0, 4>>, <<1, 5>>,
                     <<0, 3>>, <<2, 5>>,
                     <<1, 3>>, <<2, 4>>,
                     <<2, 3>> >>
      [] n = 6 -> << <<1, 2>>, <<4, 5>>,
                     <<0, 2>>, <<3, 5>>,
                     <<0, 1>>, <<3, 4>>, <<2, 5>>,
                     <<0, 3>>, <<1, 4>>,
                     <<2, 4>>, <<1, 3>>,
                     <<2, 3>> >>
      [] n = 5 -> << <<0, 1>>, <<3, 4>>,
                     <<2, 4>>,
                     <<2, 3>>, <<1, 4>>,
                     <<0, 3>>,
                     <<0, 2>>, <<1, 3>>,
                     <<1, 2>> >>
      [] n = 4 -> << <<0, 1>>, <<2, 3>>,
                     <<0, 2>>, <<1, 3>>,
                     <<1, 2>> >>
      [] OTHER -> << >>

\* faulty variant: SWAP without the order[] tags
SWAPUntagged(st, start, x, y) ==
    LET m1 == AtCompare(st.m, {start + y, start + x}, {})
    IN IF LessAt(st.m, start + y, start + x)
       THEN [m |-> SwapCells(m1, start + x, start + y),
             order |-> [st.order EXCEPT ![x] = st.order[y], ![y] = st.order[x]]]
       ELSE [st EXCEPT !.m = m1]

\* faulty variant: SWAP swaps the values but leaves the order[] tags where they are
SWAPTagsStay(st, start, x, y) ==
    LET m1 == AtCompare(st.m, {start + y, start + x}, {})
    IN IF LessAt(st.m, start + y, start + x)
          \/ (st.order[x] > st.order[y] /\ ~LessAt(st.m, start + x, start + y))
       THEN [st EXCEPT !.m = SwapCells(m1, start + x, start + y)]
       ELSE [st EXCEPT !.m = m1]

\* #define SWAP(x, y): st is [m, order]
SWAP(st, start, x, y) ==
    LET m1 == AtCompare(st.m, {start + y, start + x}, {})
    IN IF LessAt(st.m, start + y, start + x)
          \/ (st.order[x] > st.order[y] /\ ~LessAt(st.m, start + x, start + y))
       THEN [m |-> SwapCells(m1, start + x, start + y),
             order |-> [st.order EXCEPT ![x] = st.order[y], ![y] = st.order[x]]]
       ELSE [st EXCEPT !.m = m1]

\* the SWAPs of a network, one after the other; a slice that was accessed out
\* of bounds is not followed further
RECURSIVE ApplyNetwork(_, _, _, _)
ApplyNetwork(st, start, net, k) ==
    IF k > Len(net) \/ ~st.m.ok THEN st
    ELSE ApplyNetwork(SWAP(st, start, net[k][1], net[k][2]), start, net, k + 1)

\* one pass of while (!iterator.finished()) over a level-0 range
SortSlice(m, range) ==
    ApplyNetwork([m |-> m, order |-> [x \in 0 .. 7 |-> x]],
                 range.start, Network(length(range)), 1).m

Level0Slice ==
    /\ pc = "level0"
    /\ ~finished(iterator)
    /\ iterator' = nextRange(iterator)
    /\ ranges' = Append(ranges, NextRange(iterator))
    /\ Store(Did(SortSlice(mem, NextRange(iterator)), "network"))
    /\ UNCHANGED <<input, C, lower, quads, pc, sl>>

\* if (size < 8) return;
Level0Done ==
    /\ pc = "level0"
    /\ finished(iterator)
    /\ pc' = IF size < 8 THEN "done" ELSE "merge"
    /\ UNCHANGED <<input, C, lower, quads, array, cache, iterator, ranges, sl, ok, perm, held, whole, torn, did, calls, log>>

----------------------------------------------------------------------------
(* the merge loop: fast paths through the cache *)

\* if (iterator.length() < cache_size), four subarrays fit into the cache
BeginDouble ==
    /\ pc = "merge"
    /\ iterator_length(iterator) < C
    /\ (iterator_length(iterator) + 1) * 4 <= C
    /\ iterator_length(iterator) * 4 <= size
    /\ iterator' = begin(iterator)
    /\ ranges' = << >>
    /\ quads' = << >>
    /\ pc' = "double"
    /\ UNCHANGED <<input, C, lower, array, cache, sl, ok, perm, held, whole, torn, did, calls, log>>

\* faulty variant: the fast path is taken when iterator.length() <= cache_size
BeginSingleLoose ==
    /\ pc = "merge"
    /\ iterator_length(iterator) <= C
    /\ ~((iterator_length(iterator) + 1) * 4 <= C /\ iterator_length(iterator) * 4 <= size)
    /\ iterator' = begin(iterator)
    /\ ranges' = << >>
    /\ quads' = << >>
    /\ pc' = "single"
    /\ UNCHANGED <<input, C, lower, array, cache, sl, ok, perm, held, whole, torn, did, calls, log>>

BeginSingle ==
    /\ pc = "merge"
    /\ iterator_length(iterator) < C
    /\ ~((iterator_length(iterator) + 1) * 4 <= C /\ iterator_length(iterator) * 4 <= size)
    /\ iterator' = begin(iterator)
    /\ ranges' = << >>
    /\ quads' = << >>
    /\ pc' = "single"
    /\ UNCHANGED <<input, C, lower, array, cache, sl, ok, perm, held, whole, torn, did, calls, log>>

\* merge A and B (two ranges of the array) into the cache from cache[into] on
StagePair(m, cap, A, B, into) ==
    LET m1 == AtCompare(m, {B.end - 1, A.start}, {})
    IN IF LessAt(m, B.end - 1, A.start)
       THEN CopyToCache(CopyToCache(m1, cap, A.start, A.end, into + length(B)),
                        cap, B.start, B.end, into)
       ELSE IF LessAt(m, B.start, A.end - 1)
       THEN MergeIntoCache(AtCompare(m1, {B.start, A.end - 1}, {}), cap, A, B, into)
       ELSE CopyToCache(CopyToCache(AtCompare(m1, {B.start, A.end - 1}, {}),
                                    cap, A.start, A.end, into),
                        cap, B.start, B.end, into + length(A))

\* merge A3 and B3 (two ranges of the cache) into the array from array[into] on
UnstagePair(m, A3, B3, into) ==
    LET m1 == AtCompare(m, {}, {B3.end - 1, A3.start})
    IN IF LessCache(m, B3.end - 1, A3.start)
       THEN CopyFromCache(CopyFromCache(m1, A3.start, A3.end, into + length(B3)),
                          B3.start, B3.end, into)
       ELSE IF LessCache(m, B3.start, A3.end - 1)
       THEN MergeIntoArray(AtCompare(m1, {}, {B3.start, A3.end - 1}), A3, B3, into)
       ELSE CopyFromCache(CopyFromCache(AtCompare(m1, {}, {B3.start, A3.end - 1}),
                                        A3.start, A3.end, into),
                          B3.start, B3.end, into + length(A3))

\* faulty variant: A2 is taken to follow B1 only when its first item is greater
QuadInOrderStrict(m, A1, B1, A2, B2) ==
    /\ ~LessAt(m, B1.end - 1, A1.start)
    /\ ~LessAt(m, B1.start, A1.end - 1)
    /\ ~LessAt(m, B2.start, A2.end - 1)
    /\ LessAt(m, B1.end - 1, A2.start)

\* if A1, B1, A2, and B2 are all in order, skip doing anything else
QuadInOrder(m, A1, B1, A2, B2) ==
    /\ ~LessAt(m, B1.end - 1, A1.start)
    /\ ~LessAt(m, B1.start, A1.end - 1)
    /\ ~LessAt(m, B2.start, A2.end - 1)
    /\ ~LessAt(m, A2.start, B1.end - 1)

\* one pass of the double-merge loop over A1, B1, A2, B2
DoubleQuad(m, cap, A1, B1, A2, B2) ==
    IF QuadInOrder(m, A1, B1, A2, B2)
    THEN Did(AtCompare(m, {B1.end - 1, A1.start, B1.start, A1.end - 1,
                           B2.start, A2.end - 1, A2.start}, {}), "skip")
    ELSE LET m1  == StagePair(m, cap, A1, B1, 0)
             A1m == Range(A1.start, B1.end)
             m2  == StagePair(m1, cap, A2, B2, length(A1m))
             A2m == Range(A2.start, B2.end)
             A3  == Range(0, length(A1m))
             B3  == Range(length(A1m), length(A1m) + length(A2m))
         IN UnstagePair(m2, A3, B3, A1m.start)

DoubleMergeQuad ==
    /\ pc = "double"
    /\ ~finished(iterator)
    /\ LET it1 == nextRange(iterator)
           it2 == nextRange(it1)
           it3 == nextRange(it2)
           it4 == nextRange(it3)
           A1 == NextRange(iterator)
           B1 == NextRange(it1)
           A2 == NextRange(it2)
           B2 == NextRange(it3)
       IN /\ iterator' = it4
          /\ ranges' = ranges \o <<A1, B1, A2, B2>>
          /\ quads' = Append(quads, Range(A1.start, B2.end))
          /\ Store(Did(DoubleQuad(mem, C, A1, B1, A2, B2), "double"))
    /\ UNCHANGED <<input, C, lower, pc, sl>>

\* faulty variant: the double merge leaves the second nextLevel() out
DoubleDoneOneLevel ==
    /\ pc = "double"
    /\ finished(iterator)
    /\ ranges' = << >>
    /\ pc' = "nextlevel"
    /\ UNCHANGED <<input, C, lower, quads, array, cache, iterator, sl, ok, perm, held, whole, torn, did, calls, log>>

\* we merged two levels at the same time: iterator.nextLevel()
DoubleDone ==
    /\ pc = "double"
    /\ finished(iterator)
    /\ iterator' = nextLevel(iterator)
    /\ ranges' = << >>
    /\ lower' = iterator
    /\ pc' = "nextlevel"
    /\ UNCHANGED <<input, C, quads, array, cache, sl, ok, perm, held, whole, torn, did, calls, log>>

\* faulty variant: the two ranges are rotated when B's last item is not after A's first
SinglePairRotateOnEqual(m, cap, A, B) ==
    LET m1 == AtCompare(m, {B.end - 1, A.start}, {})
    IN IF ~LessAt(m, A.start, B.end - 1)
       THEN Rotate(m1, length(A), Range(A.start, B.end))
       ELSE IF LessAt(m, B.start, A.end - 1)
       THEN MergeExternal(CopyToCache(AtCompare(m1, {B.start, A.end - 1}, {}),
                                      cap, A.start, A.end, 0), A, B)
       ELSE AtCompare(m1, {B.start, A.end - 1}, {})

\* one pass of the single-merge loop over A, B
SinglePair(m, cap, A, B) ==
    LET m1 == AtCompare(m, {B.end - 1, A.start}, {})
    IN IF LessAt(m, B.end - 1, A.start)
       THEN Rotate(m1, length(A), Range(A.start, B.end))
       ELSE IF LessAt(m, B.start, A.end - 1)
       THEN MergeExternal(CopyToCache(AtCompare(m1, {B.start, A.end - 1}, {}),
                                      cap, A.start, A.end, 0), A, B)
       ELSE AtCompare(m1, {B.start, A.end - 1}, {})

SingleMergePair ==
    /\ pc = "single"
    /\ ~finished(iterator)
    /\ LET it1 == nextRange(iterator)
           A == NextRange(iterator)
           B == NextRange(it1)
       IN /\ iterator' = nextRange(it1)
          /\ ranges' = ranges \o <<A, B>>
          /\ Store(Did(SinglePair(mem, C, A, B), "single"))
    /\ UNCHANGED <<input, C, lower, quads, pc, sl>>

SingleDone ==
    /\ pc = "single"
    /\ finished(iterator)
    /\ pc' = "nextlevel"
    /\ UNCHANGED <<input, C, lower, quads, array, cache, iterator, ranges, sl, ok, perm, held, whole, torn, did, calls, log>>

\* if (!iterator.nextLevel()) break;
NextLevel ==
    /\ pc = "nextlevel"
    /\ iterator' = nextLevel(iterator)
    /\ ranges' = << >>
    /\ lower' = iterator
    /\ pc' = IF NextLevelResult(iterator) THEN "merge" ELSE "done"
    /\ UNCHANGED <<input, C, quads, array, cache, sl, ok, perm, held, whole, torn, did, calls, log>>

----------------------------------------------------------------------------
(* the merge loop: block sort with internal buffers *)

\* std::size_t block_size = sqrt(iterator.length());
RECURSIVE SqrtFrom(_, _)
SqrtFrom(x, r) == IF (r + 1) * (r + 1) > x THEN r ELSE SqrtFrom(x, r + 1)
sqrt(x) == SqrtFrom(x, 0)

\* faulty variant: the square root is rounded up
SlowInitCeil(L, cap) ==
    LET block_size == IF sqrt(L) * sqrt(L) = L THEN sqrt(L) ELSE sqrt(L) + 1
        buffer_size == L \div block_size + 1
        find == buffer_size + buffer_size
    IN [NoSlow EXCEPT
           !.block_size = block_size,
           !.buffer_size = buffer_size,
           !.find = IF block_size <= cap THEN buffer_size
                    ELSE IF find > L THEN buffer_size
                    ELSE find,
           !.find_separately = ~(block_size <= cap) /\ find > L]

\* block_size, buffer_size, find and find_separately at the top of a level
SlowInit(L, cap) ==
    LET block_size == sqrt(L)
        buffer_size == L \div block_size + 1
        find == buffer_size + buffer_size
    IN [NoSlow EXCEPT
           !.block_size = block_size,
           !.buffer_size = buffer_size,
           !.find = IF block_size <= cap THEN buffer_size
                    ELSE IF find > L THEN buffer_size
                    ELSE find,
           !.find_separately = ~(block_size <= cap) /\ find > L]

BeginSlow ==
    /\ pc = "merge"
    /\ ~(iterator_length(iterator) < C)
    /\ sl' = SlowInit(iterator_length(iterator), C)
    /\ iterator' = begin(iterator)
    /\ ranges' = << >>
    /\ quads' = << >>
    /\ pc' = "scan"
    /\ UNCHANGED <<input, C, lower, array, cache, ok, perm, held, whole, torn, did, calls, log>>

\* #define PULL(_to)
PULL(s, A, B, count, index, to) ==
    [s EXCEPT !.pull[s.pull_index + 1] =
        [range |-> Range(A.start, B.end), count |-> count, from |-> index, to |-> to]]

\* for (last = A.start, count = 1; count < find; last = index, count++)
\* a scan state is [m, last, count]
RECURSIVE ScanA(_, _, _, _, _)
\* faulty variant: the scan goes on while count <= find
ScanAThrough(m, A, find, last, count) ==
    IF ~(count <= find) THEN [m |-> m, last |-> last, count |-> count]
    ELSE LET range == Range(last + 1, A.end)
             f == FindLastForward(m.a, proj(RdA(m, last)), range, find - count)
             m1 == Hint(Check(AtSearch(m, range, f), last \in DOMAIN m.a),
                        "FindLastForward", range, find - count)
         IN IF f.i = A.end THEN [m |-> m1, last |-> last, count |-> count]
            ELSE ScanA(m1, A, find, f.i, count + 1)

ScanA(m, A, find, last, count) ==
    IF ~(count < find) THEN [m |-> m, last |-> last, count |-> count]
    ELSE LET range == Range(last + 1, A.end)
             f == FindLastForward(m.a, proj(RdA(m, last)), range, find - count)
             m1 == Hint(Check(AtSearch(m, range, f), last \in DOMAIN m.a),
                        "FindLastForward", range, find - count)
         IN IF f.i = A.end THEN [m |-> m1, last |-> last, count |-> count]
            ELSE ScanA(m1, A, find, f.i, count + 1)

\* for (last = B.end - 1, count = 1; count < find; last = index - 1, count++)
RECURSIVE ScanB(_, _, _, _, _)
ScanB(m, B, find, last, count) ==
    IF ~(count < find) THEN [m |-> m, last |-> last, count |-> count]
    ELSE LET range == Range(B.start, last)
             f == FindFirstBackward(m.a, proj(RdA(m, last)), range, find - count)
             m1 == Hint(Check(AtSearch(m, range, f), last \in DOMAIN m.a),
                        "FindFirstBackward", range, find - count)
         IN IF f.i = B.start THEN [m |-> m1, last |-> last, count |-> count]
            ELSE ScanB(m1, B, find, f.i - 1, count + 1)

\* what the scan of A decides: [s |-> the locals, brk |-> the loop is left]
DecideA(s, cap, A, B, count, index) ==
    IF count >= s.buffer_size
    THEN LET s1 == [PULL(s, A, B, count, index, A.start) EXCEPT !.pull_index = 1]
         IN IF count = s.buffer_size + s.buffer_size
            THEN [s |-> [s1 EXCEPT !.buffer1 = Range(A.start, A.start + s.buffer_size),
                                   !.buffer2 = Range(A.start + s.buffer_size, A.start + count)],
                  brk |-> TRUE]
            ELSE IF s.find = s.buffer_size + s.buffer_size
            THEN [s |-> [s1 EXCEPT !.buffer1 = Range(A.start, A.start + count),
                                   !.find = s.buffer_size],
                  brk |-> FALSE]
            ELSE IF s.block_size <= cap
            THEN [s |-> [s1 EXCEPT !.buffer1 = Range(A.start, A.start + count)],
                  brk |-> TRUE]
            ELSE IF s.find_separately
            THEN [s |-> [s1 EXCEPT !.buffer1 = Range(A.start, A.start + count),
                                   !.find_separately = FALSE],
                  brk |-> FALSE]
            ELSE [s |-> [s1 EXCEPT !.buffer2 = Range(A.start, A.start + count)],
                  brk |-> TRUE]
    ELSE IF s.pull_index = 0 /\ count > length(s.buffer1)
    THEN [s |-> PULL([s EXCEPT !.buffer1 = Range(A.start, A.start + count)],
                     A, B, count, index, A.start),
          brk |-> FALSE]
    ELSE [s |-> s, brk |-> FALSE]

\* what the scan of B decides
DecideB(s, cap, A, B, count, index) ==
    IF count >= s.buffer_size
    THEN LET s1 == [PULL(s, A, B, count, index, B.end) EXCEPT !.pull_index = 1]
         IN IF count = s.buffer_size + s.buffer_size
            THEN [s |-> [s1 EXCEPT !.buffer1 = Range(B.end - count, B.end - s.buffer_size),
                                   !.buffer2 = Range(B.end - s.buffer_size, B.end)],
                  brk |-> TRUE]
            ELSE IF s.find = s.buffer_size + s.buffer_size
            THEN [s |-> [s1 EXCEPT !.buffer1 = Range(B.end - count, B.end),
                                   !.find = s.buffer_size],
                  brk |-> FALSE]
            ELSE IF s.block_size <= cap
            THEN [s |-> [s1 EXCEPT !.buffer1 = Range(B.end - count, B.end)],
                  brk |-> TRUE]
            ELSE IF s.find_separately
            THEN [s |-> [s1 EXCEPT !.buffer1 = Range(B.end - count, B.end),
                                   !.find_separately = FALSE],
                  brk |-> FALSE]
            ELSE [s |-> [s1 EXCEPT
                            !.pull[1].range.end =
                                IF s1.pull[1].range.start = A.start
                                THEN @ - s1.pull[2].count ELSE @,
                            !.buffer2 = Range(B.end - count, B.end)],
                  brk |-> TRUE]
    ELSE IF s.pull_index = 0 /\ count > length(s.buffer1)
    THEN [s |-> PULL([s EXCEPT !.buffer1 = Range(B.end - count, B.end)],
                     A, B, count, index, B.end),
          brk |-> FALSE]
    ELSE [s |-> s, brk |-> FALSE]

\* one pass of the scan loop over A, B: [m, s, brk]
ScanStep(m, s, cap, A, B) ==
    LET a == ScanA(m, A, s.find, A.start, 1)
        da == DecideA(s, cap, A, B, a.count, a.last)
        b == ScanB(a.m, B, da.s.find, B.end - 1, 1)
        db == DecideB(da.s, cap, A, B, b.count, b.last)
    IN IF da.brk THEN [m |-> a.m, s |-> da.s, brk |-> TRUE]
       ELSE [m |-> b.m, s |-> db.s, brk |-> db.brk]

ScanPair ==
    /\ pc = "scan"
    /\ ~finished(iterator)
    /\ LET it1 == nextRange(iterator)
           A == NextRange(iterator)
           B == NextRange(it1)
           r == ScanStep(mem, sl, C, A, B)
       IN /\ iterator' = nextRange(it1)
          /\ ranges' = ranges \o <<A, B>>
          /\ Store(r.m)
          /\ sl' = IF r.brk THEN [r.s EXCEPT !.pull_index = 0] ELSE r.s
          /\ pc' = IF r.brk THEN "pull" ELSE "scan"
    /\ UNCHANGED <<input, C, lower, quads>>

ScanDone ==
    /\ pc = "scan"
    /\ finished(iterator)
    /\ sl' = [sl EXCEPT !.pull_index = 0]
    /\ pc' = "pull"
    /\ UNCHANGED <<input, C, lower, quads, array, cache, iterator, ranges, ok, perm, held, whole, torn, did, calls, log>>

\* pulling the values out to the left: a pull state is [m, from, index]
RECURSIVE PullLeft(_, _, _, _, _, _)
PullLeft(m, to, length_, from, index, count) ==
    IF ~(count < length_) THEN [m |-> m, from |-> from]
    ELSE LET range0 == Range(to, from - (count - 1))
             f == FindFirstBackward(m.a, proj(RdA(m, index - 1)), range0, length_ - count)
             m1 == Hint(Check(AtSearch(m, range0, f), (index - 1) \in DOMAIN m.a),
                        "FindFirstBackward", range0, length_ - count)
             range == Range(f.i + 1, from + 1)
             m2 == Rotate(m1, length(range) - count, range)
         IN PullLeft(m2, to, length_, f.i + count, f.i, count + 1)

\* pulling the values out to the right
RECURSIVE PullRight(_, _, _, _, _, _)
PullRight(m, to, length_, from, index, count) ==
    IF ~(count < length_) THEN [m |-> m, from |-> from]
    ELSE LET range0 == Range(index, to)
             f == FindLastForward(m.a, proj(RdA(m, index)), range0, length_ - count)
             m1 == Hint(Check(AtSearch(m, range0, f), index \in DOMAIN m.a),
                        "FindLastForward", range0, length_ - count)
             range == Range(from, f.i - 1)
             m2 == Rotate(m1, count, range)
         IN PullRight(m2, to, length_, f.i - 1 - count, f.i, count + 1)

\* faulty variant: nothing is pulled out to the right
PullStepLeftOnly(m, p) ==
    IF p.to < p.from THEN PullLeft(m, p.to, p.count, p.from, p.from, 1)
    ELSE [m |-> m, from |-> p.from]

\* one pass of for (pull_index = 0; pull_index < 2; pull_index++): [m, from]
PullStep(m, p) ==
    IF p.to < p.from THEN PullLeft(m, p.to, p.count, p.from, p.from, 1)
    ELSE IF p.to > p.from THEN PullRight(m, p.to, p.count, p.from, p.from + 1, 1)
    ELSE [m |-> m, from |-> p.from]

PullOut ==
    /\ pc = "pull"
    /\ sl.pull_index < 2
    /\ LET r == PullStep(mem, sl.pull[sl.pull_index + 1])
       IN /\ Store(r.m)
          /\ sl' = [sl EXCEPT !.pull[sl.pull_index + 1].from = r.from,
                              !.pull_index = @ + 1]
    /\ UNCHANGED <<input, C, lower, quads, iterator, ranges, pc>>

\* faulty variant: block_size is the quotient alone
AdjustNoRoundUp(s, L) ==
    [s EXCEPT !.buffer_size = length(s.buffer1),
              !.block_size = L \div length(s.buffer1)]

\* buffer_size = buffer1.length(); block_size = iterator.length()/buffer_size + 1;
Adjust(s, L) ==
    [s EXCEPT !.buffer_size = length(s.buffer1),
              !.block_size = L \div length(s.buffer1) + 1]

PullDone ==
    /\ pc = "pull"
    /\ sl.pull_index = 2
    /\ sl' = Adjust(sl, iterator_length(iterator))
    /\ iterator' = begin(iterator)
    /\ ranges' = << >>
    /\ pc' = "block"
    /\ UNCHANGED <<input, C, lower, quads, array, cache, ok, perm, held, whole, torn, did, calls, log>>

\* remove any parts of A or B that are being used by the internal buffers:
\* [A, B, skip], skip being the continue
StripOne(r, start, p) ==
    IF r.skip \/ start # p.range.start THEN r
    ELSE IF p.from > p.to
    THEN [A |-> Range(r.A.start + p.count, r.A.end), B |-> r.B,
          skip |-> (r.A.end - (r.A.start + p.count) = 0)]
    ELSE IF p.from < p.to
    THEN [A |-> r.A, B |-> Range(r.B.start, r.B.end - p.count),
          skip |-> ((r.B.end - p.count) - r.B.start = 0)]
    ELSE r

Strip(s, A, B) ==
    StripOne(StripOne([A |-> A, B |-> B, skip |-> FALSE], A.start, s.pull[1]),
             A.start, s.pull[2])

\* swap the first value of each A block with the values in buffer1
RECURSIVE TagBlocks(_, _, _, _, _)
TagBlocks(m, indexA, index, blockA_end, block_size) ==
    IF ~(index < blockA_end) THEN m
    ELSE TagBlocks(SwapCells(Note(m, [what |-> "tag", indexA |-> indexA, index |-> index]),
                             indexA, index),
                   indexA + 1, index + block_size, blockA_end, block_size)

\* faulty variant: the second internal buffer is not looked for
LocalMergeNoBuffer(m, s, cap, lastA, B) ==
    IF length(lastA) <= cap
    THEN MergeExternal(Note(m, [what |-> "MergeExternal", A |-> lastA, B |-> B]), lastA, B)
    ELSE MergeInPlace(Note(m, [what |-> "MergeInPlace", A |-> lastA, B |-> B]), lastA, B)

\* faulty variant: the local merge goes through the cache whatever its size
LocalMergeCached(m, s, cap, lastA, B) == MergeExternal(m, lastA, B)

\* locally merge the previous A block with the B values that follow it
LocalMerge(m, s, cap, lastA, B) ==
    IF length(lastA) <= cap
    THEN MergeExternal(Note(m, [what |-> "MergeExternal", A |-> lastA, B |-> B]), lastA, B)
    ELSE IF length(s.buffer2) > 0
    THEN MergeInternal(Note(m, [what |-> "MergeInternal", A |-> lastA, B |-> B]), lastA, B,
                       s.buffer2)
    ELSE MergeInPlace(Note(m, [what |-> "MergeInPlace", A |-> lastA, B |-> B]), lastA, B)

\* for (findA = minA + block_size; findA < blockA.end; findA += block_size)
RECURSIVE FindMinA(_, _, _, _, _)
\* faulty variant: the leftmost of the rolling A blocks is taken as the minimum
FindMinANoScan(m, minA, findA, blockA_end, block_size) == [m |-> m, minA |-> minA]

FindMinA(m, minA, findA, blockA_end, block_size) ==
    IF ~(findA < blockA_end) THEN [m |-> m, minA |-> minA]
    ELSE FindMinA(AtCompare(m, {findA, minA}, {}),
                  IF LessAt(m, findA, minA) THEN findA ELSE minA,
                  findA + block_size, blockA_end, block_size)

\* drop the minimum A block behind: r is [m, blockA, blockB, lastA, lastB, indexA]
DropBlock(r, s, cap) ==
    LET Drop(m1, B_split) ==
            LET B_remaining == r.lastB.end - B_split
                \* swap the minimum A block to the beginning of the rolling A blocks
                Swap(mn) == SwapCells(BlockSwap(Note(mn.m, [what |-> "drop", minA |-> mn.minA,
                                                             indexA |-> r.indexA,
                                                             blockA |-> r.blockA, a |-> mn.m.a]),
                                                r.blockA.start, mn.minA, s.block_size),
                                      r.blockA.start, r.indexA)
                \* copy the previous A block into the cache or buffer2, or rotate
                Keep(m4) ==
                    IF length(s.buffer2) > 0 \/ s.block_size <= cap
                    THEN BlockSwap(IF s.block_size <= cap
                                   THEN CopyToCache(m4, cap, r.blockA.start,
                                                    r.blockA.start + s.block_size, 0)
                                   ELSE BlockSwap(m4, r.blockA.start, s.buffer2.start,
                                                  s.block_size),
                                   B_split, r.blockA.start + s.block_size - B_remaining,
                                   B_remaining)
                    ELSE Rotate(m4, r.blockA.start - B_split,
                                Range(B_split, r.blockA.start + s.block_size))
                lastA == Range(r.blockA.start - B_remaining,
                               r.blockA.start - B_remaining + s.block_size)
            IN [m |-> Keep(LocalMerge(
                          Swap(FindMinA(m1, r.blockA.start, r.blockA.start + s.block_size,
                                        r.blockA.end, s.block_size)),
                          s, cap, r.lastA, Range(r.lastA.end, B_split))),
                blockA |-> Range(r.blockA.start + s.block_size, r.blockA.end),
                blockB |-> r.blockB,
                lastA |-> lastA,
                lastB |-> Range(lastA.end, lastA.end + B_remaining),
                indexA |-> r.indexA + 1]
        Searched(f) ==
            Drop(Check(AtSearch(r.m, r.lastB, f), r.indexA \in DOMAIN r.m.a), f.i)
    IN Searched(BinaryFirst(r.m.a, proj(RdA(r.m, r.indexA)), r.lastB))

\* move the last B block, which is unevenly sized, to before the remaining A blocks
RotateLastB(r) ==
    [r EXCEPT !.m = Rotate(r.m, r.blockB.start - r.blockA.start,
                           Range(r.blockA.start, r.blockB.end)),
              !.lastB = Range(r.blockA.start, r.blockA.start + length(r.blockB)),
              !.blockA = Range(r.blockA.start + length(r.blockB),
                               r.blockA.end + length(r.blockB)),
              !.blockB = Range(r.blockB.start, r.blockB.start)]

\* roll the leftmost A block to the end by swapping it with the next B block
RollBlock(r, s, B) ==
    [r EXCEPT !.m = Check(BlockSwap(r.m, r.blockA.start, r.blockB.start, s.block_size),
                          B.end - s.block_size >= 0),
              !.lastB = Range(r.blockA.start, r.blockA.start + s.block_size),
              !.blockA = Range(r.blockA.start + s.block_size, r.blockA.end + s.block_size),
              !.blockB = Range(r.blockB.start + s.block_size,
                               IF r.blockB.end > B.end - s.block_size THEN B.end
                               ELSE r.blockB.end + s.block_size)]

\* while (true) of the rolling: left when no A block remains
RECURSIVE RollLoop(_, _, _, _), Dropped(_, _, _, _), Rolled(_, _, _, _)
RollLoop(r, s, cap, B) ==
    IF length(r.lastB) > 0 /\ ~LessAt(r.m, r.lastB.end - 1, r.indexA)
    THEN Dropped(DropBlock([r EXCEPT !.m = AtCompare(r.m, {r.lastB.end - 1, r.indexA}, {})],
                           s, cap), s, cap, B)
    ELSE Rolled(IF length(r.lastB) > 0
                THEN [r EXCEPT !.m = AtCompare(r.m, {r.lastB.end - 1, r.indexA}, {})]
                ELSE r, s, cap, B)

\* if (blockA.length() == 0) break, after a block was dropped
Dropped(d, s, cap, B) ==
    IF length(d.blockA) = 0 THEN d ELSE RollLoop(d, s, cap, B)

\* the else branches of the rolling: no B block remains, a short one, a whole one
Rolled(r, s, cap, B) ==
    IF length(r.blockB) = 0
    THEN Dropped(DropBlock(r, s, cap), s, cap, B)
    ELSE IF length(r.blockB) < s.block_size
    THEN RollLoop(RotateLastB(r), s, cap, B)
    ELSE RollLoop(RollBlock(r, s, B), s, cap, B)

\* break A into blocks, tag them, roll them through B, merge the last one
BlockMerge(m, s, cap, A, B) ==
    LET blockA == Range(A.start, A.end)
        firstA == Range(A.start, A.start + (length(blockA) % s.block_size))
        \* save the first, unevenly sized A block in the cache or in buffer2
        Save(m1) == IF length(firstA) <= cap
                    THEN CopyToCache(m1, cap, firstA.start, firstA.end, 0)
                    ELSE IF length(s.buffer2) > 0
                    THEN BlockSwap(m1, firstA.start, s.buffer2.start, length(firstA))
                    ELSE m1
        \* if (blockA.length() > 0) while (true) ...
        Roll(r0) == IF length(r0.blockA) > 0 THEN RollLoop(r0, s, cap, B) ELSE r0
        \* merge the last A block with the remaining B values
        Last(r1) == LocalMerge(r1.m, s, cap, r1.lastA, Range(r1.lastA.end, B.end))
        \* the A blocks as they stood before and after the tagging
        Tag(m1) == Note(m1, [what |-> "tagged", before |-> m.a, after |-> m1.a,
                             from |-> firstA.end, to |-> blockA.end])
    IN Last(Roll([m |-> Save(Tag(TagBlocks(m, s.buffer1.start, firstA.end, blockA.end,
                                           s.block_size))),
                  blockA |-> Range(blockA.start + length(firstA), blockA.end),
                  blockB |-> Range(B.start, B.start + Min(s.block_size, length(B))),
                  lastA |-> firstA,
                  lastB |-> Range(0, 0),
                  indexA |-> s.buffer1.start]))

\* one pass of the block-sort loop over A, B
BlockPairStep(m, s, cap, A0, B0) ==
    LET st == Strip(s, A0, B0)
        A == st.A
        B == st.B
        mA == Note(m, [what |-> "strip", A |-> A, B |-> B, skip |-> st.skip])
        Second(m1) == IF LessAt(m, A.end, A.end - 1)
                      THEN BlockMerge(m1, s, cap, A, B)
                      ELSE m1
    IN IF st.skip THEN mA
       ELSE IF LessAt(m, B.end - 1, A.start)
       THEN Rotate(AtCompare(mA, {B.end - 1, A.start}, {}), length(A), Range(A.start, B.end))
       ELSE Second(Note(AtCompare(AtCompare(mA, {B.end - 1, A.start}, {}),
                                  {A.end, A.end - 1}, {}),
                        [what |-> "read", cell |-> A.end, A |-> A, B |-> B]))

BlockPair ==
    /\ pc = "block"
    /\ ~finished(iterator)
    /\ LET it1 == nextRange(iterator)
           A == NextRange(iterator)
           B == NextRange(it1)
       IN /\ iterator' = nextRange(it1)
          /\ ranges' = ranges \o <<A, B>>
          /\ Store(Did(BlockPairStep(mem, sl, C, A, B), "block"))
    /\ UNCHANGED <<input, C, lower, quads, pc, sl>>

\* detail::insertion_sort(array + first, array + last, compare, projection)
RECURSIVE SiftDown(_, _, _)
SiftDown(a, first, k) ==
    IF k > first /\ compare(proj(a[k]), proj(a[k - 1]))
    THEN SiftDown([a EXCEPT ![k] = a[k - 1], ![k - 1] = a[k]], first, k - 1)
    ELSE a

RECURSIVE InsertionLoop(_, _, _, _)
InsertionLoop(a, first, last, cur) ==
    IF cur >= last THEN a
    ELSE InsertionLoop(SiftDown(a, first, cur), first, last, cur + 1)

insertion_sort(m, first, last) ==
    IF first = last THEN m
    ELSE IF first < last /\ first \in DOMAIN m.a /\ (last - 1) \in DOMAIN m.a
    THEN [Did(m, "insertion_sort") EXCEPT !.a = InsertionLoop(m.a, first, last, first + 1)]
    ELSE [m EXCEPT !.ok = FALSE]

BlockDone ==
    /\ pc = "block"
    /\ finished(iterator)
    /\ Store(insertion_sort(mem, sl.buffer2.start, sl.buffer2.end))
    /\ sl' = [sl EXCEPT !.pull_index = 0]
    /\ pc' = "redistribute"
    /\ UNCHANGED <<input, C, lower, quads, iterator, ranges>>

\* the values were pulled out to the left, so redistribute them back to the right
RECURSIVE RedistributeRight(_, _, _, _)
\* faulty variant: the hint is halved from one value to the next
RedistributeRightHalving(m, buffer, range_end, unique) ==
    IF ~(length(buffer) > 0) THEN m
    ELSE LET range == Range(buffer.end, range_end)
             f == FindFirstForward(m.a, proj(RdA(m, buffer.start)), range, unique)
             amount == f.i - buffer.end
             m1 == Hint(Check(AtSearch(m, range, f), buffer.start \in DOMAIN m.a),
                        "FindFirstForward", range, unique)
             m2 == Rotate(m1, length(buffer), Range(buffer.start, f.i))
         IN RedistributeRight(m2, Range(buffer.start + (amount + 1), buffer.end + amount),
                              range_end, unique \div 2)

RedistributeRight(m, buffer, range_end, unique) ==
    IF ~(length(buffer) > 0) THEN m
    ELSE LET range == Range(buffer.end, range_end)
             f == FindFirstForward(m.a, proj(RdA(m, buffer.start)), range, unique)
             amount == f.i - buffer.end
             m1 == Hint(Check(AtSearch(m, range, f), buffer.start \in DOMAIN m.a),
                        "FindFirstForward", range, unique)
             m2 == Rotate(m1, length(buffer), Range(buffer.start, f.i))
         IN RedistributeRight(m2, Range(buffer.start + (amount + 1), buffer.end + amount),
                              range_end, unique - 2)

\* the values were pulled out to the right, so redistribute them back to the left
RECURSIVE RedistributeLeft(_, _, _, _)
RedistributeLeft(m, buffer, range_start, unique) ==
    IF ~(length(buffer) > 0) THEN m
    ELSE LET range == Range(range_start, buffer.start)
             f == FindLastBackward(m.a, proj(RdA(m, buffer.end - 1)), range, unique)
             amount == buffer.start - f.i
             m1 == Hint(Check(AtSearch(m, range, f), (buffer.end - 1) \in DOMAIN m.a),
                        "FindLastBackward", range, unique)
             m2 == Rotate(m1, amount, Range(f.i, buffer.end))
         IN RedistributeLeft(m2, Range(buffer.start - amount, buffer.end - (amount + 1)),
                             range_start, unique - 2)

\* faulty variant: only the values pulled out to the left are put back
RedistributeStepOneWay(m, p) ==
    IF p.from > p.to
    THEN RedistributeRight(Did(m, "redistribute"),
                           Range(p.range.start, p.range.start + p.count),
                           p.range.end, p.count * 2)
    ELSE m

\* one pass of the redistribution loop over pull[pull_index]
RedistributeStep(m, p) ==
    IF p.from > p.to
    THEN RedistributeRight(Did(m, "redistribute"),
                           Range(p.range.start, p.range.start + p.count),
                           p.range.end, p.count * 2)
    ELSE IF p.from < p.to
    THEN RedistributeLeft(Did(m, "redistribute back"),
                          Range(p.range.end - p.count, p.range.end),
                          p.range.start, p.count * 2)
    ELSE m

Redistribute ==
    /\ pc = "redistribute"
    /\ sl.pull_index < 2
    /\ Store(RedistributeStep(mem, sl.pull[sl.pull_index + 1]))
    /\ sl' = [sl EXCEPT !.pull_index = @ + 1]
    /\ UNCHANGED <<input, C, lower, quads, iterator, ranges, pc>>

RedistributeDone ==
    /\ pc = "redistribute"
    /\ sl.pull_index = 2
    /\ sl' = NoSlow
    /\ pc' = "nextlevel"
    /\ UNCHANGED <<input, C, lower, quads, array, cache, iterator, ranges, ok, perm, held, whole, torn, did, calls, log>>

----------------------------------------------------------------------------
Next ==
    \/ SortSmall
    \/ MakeIterator
    \/ Level0Slice
    \/ Level0Done
    \/ BeginDouble
    \/ DoubleMergeQuad
    \/ DoubleDone
    \/ BeginSingle
    \/ SingleMergePair
    \/ SingleDone
    \/ BeginSlow
    \/ ScanPair
    \/ ScanDone
    \/ PullOut
    \/ PullDone
    \/ BlockPair
    \/ BlockDone
    \/ Redistribute
    \/ RedistributeDone
    \/ NextLevel

Spec == Init /\ [][Next]_vars

----------------------------------------------------------------------------
(* The sorting networks and the merges called on their own: every content  *)
(* of a slice and every pair of runs up to MaxRun items, in an array that   *)
(* has one more cell on either side.                                       *)

\* the longest run handed to a merge called on its own
MaxRun == 3
\* the longest range handed to a search called on its own, the largest hint
MaxSearch == 6
MaxHint == 7

\* the state a function is called in: the array a over the keys k, the cache
\* ch, the ranges rs it is called with
CallState(k, a, ch, rs, at) ==
    /\ input = k
    /\ C = cache_size
    /\ array = a
    /\ cache = ch
    /\ iterator = NoIterator
    /\ ranges = rs
    /\ pc = at
    /\ sl = NoSlow
    /\ ok = TRUE
    /\ perm = TRUE
    /\ held = TRUE
    /\ whole = TRUE
    /\ torn = << >>
    /\ did = {}
    /\ calls = 0
    /\ log = << >>
    /\ lower = NoIterator
    /\ quads = << >>

\* the keys f in the cells 1 .. n of an array of n + 2 cells, the largest key
\* in the cell before them and the smallest in the cell after them
Padded(f, n) ==
    [i \in 0 .. n + 1 |-> IF i = 0 THEN MaxKey ELSE IF i = n + 1 THEN 1 ELSE f[i - 1]]

Tagged(k) == [i \in DOMAIN k |-> <<k[i], i>>]

\* a range of 4 to 8 items with any content, as the level-0 loop hands it to
\* the SWAP networks
SliceInit ==
    \E n \in min_level .. 2 * min_level :
    \E f \in [0 .. n - 1 -> Keys] :
        CallState(Padded(f, n), Tagged(Padded(f, n)), << >>, <<Range(1, n + 1)>>, "SortSlice")

\* two runs A and B, one after the other
Runs(fa, fb) ==
    [i \in 0 .. Len(fa) + Len(fb) - 1 |-> IF i < Len(fa) THEN fa[i + 1] ELSE fb[i - Len(fa) + 1]]

RunsOf(len) == {[i \in 1 .. len |-> f[i - 1]] : f \in SortedRuns(len)}

\* MergeExternal(array, A, B, ..., cache): A is in cache[0 .. |A|), the cells
\* of A in the array hold A still (as after line 581) or what an earlier
\* block swap left there; the cache has a cell in use after A
ExternalInit ==
    \E a \in 0 .. MaxRun, b \in 0 .. MaxRun :
    \E fa \in RunsOf(a), fb \in RunsOf(b) :
    \E stale \in BOOLEAN :
        LET k == Padded(Runs(fa, fb), a + b)
            e == Tagged(k)
        IN CallState(k,
                     [i \in DOMAIN k |-> IF stale /\ i >= 1 /\ i < 1 + a THEN e[a + b + 1] ELSE e[i]],
                     [i \in 0 .. a |-> IF i < a THEN e[1 + i] ELSE e[0]],
                     <<Range(1, 1 + a), Range(1 + a, 1 + a + b)>>, "MergeExternal")

\* MergeInternal(array, A, B, ..., buffer): the first |A| cells of buffer hold
\* A, the cells of A hold what the buffer held; the buffer, one cell longer
\* than A, lies before A or after B
InternalInit ==
    \E a \in 0 .. MaxRun, b \in 0 .. MaxRun :
    \E fa \in RunsOf(a), fb \in RunsOf(b) :
    \E before \in BOOLEAN :
        LET junk == [i \in 1 .. a |-> (i % MaxKey) + 1]
            k == IF before
                 THEN Padded(Runs(fa \o <<MaxKey>> \o junk, fb), a + 1 + a + b)
                 ELSE Padded(Runs(junk \o fb, fa \o <<MaxKey>>), a + b + a + 1)
            A == IF before THEN Range(a + 2, a + 2 + a) ELSE Range(1, 1 + a)
            buffer == IF before THEN Range(1, a + 2) ELSE Range(1 + a + b, a + b + a + 2)
        IN CallState(k, Tagged(k), << >>,
                     <<A, Range(A.end, A.end + b), buffer>>, "MergeInternal")

\* MergeInPlace(array, A, B, ...)
InPlaceInit ==
    \E a \in 0 .. MaxRun, b \in 0 .. MaxRun :
    \E fa \in RunsOf(a), fb \in RunsOf(b) :
        LET k == Padded(Runs(fa, fb), a + b)
        IN CallState(k, Tagged(k), << >>,
                     <<Range(1, 1 + a), Range(1 + a, 1 + a + b)>>, "MergeInPlace")

\* MergeInto(array, A, B, ..., &cache[into]): A and B, neither empty, in the
\* array, the cache written up to into
IntoCacheInit ==
    \E a \in 1 .. MaxRun, b \in 1 .. MaxRun :
    \E fa \in RunsOf(a), fb \in RunsOf(b) :
    \E into \in 0 .. 1 :
        LET k == Padded(Runs(fa, fb), a + b)
            e == Tagged(k)
        IN CallState(k, e, [i \in 0 .. into - 1 |-> e[0]],
                     <<Range(1, 1 + a), Range(1 + a, 1 + a + b), Range(into, into + a + b)>>,
                     "MergeIntoCache")

\* MergeInto(cache, A3, B3, ..., &array[into]): A3 and B3 in the cache, the
\* cells of the array they go to holding something else
IntoArrayInit ==
    \E a \in 1 .. MaxRun, b \in 1 .. MaxRun :
    \E fa \in RunsOf(a), fb \in RunsOf(b) :
        LET k == Padded(Runs(fa, fb), a + b)
            e == Tagged(k)
        IN CallState(k,
                     [i \in DOMAIN k |-> IF i >= 1 /\ i <= a + b THEN e[a + b + 1] ELSE e[i]],
                     [i \in 0 .. a + b - 1 |-> e[i + 1]],
                     <<Range(0, a), Range(a, a + b), Range(1, 1 + a + b)>>,
                     "MergeIntoArray")

\* Find*(array, value, range, ..., unique): a sorted range of up to MaxSearch
\* items in the cells from 1 on, the value looked for in cell 0
FindInit ==
    \E n \in 0 .. MaxSearch :
    \E f \in SortedRuns(n) :
    \E v \in Keys :
        LET k == [i \in 0 .. n |-> IF i = 0 THEN v ELSE f[i - 1]]
        IN CallState(k, Tagged(k), << >>, <<Range(1, n + 1)>>, "Find")

UnitsInit ==
    \/ FindInit
    \/ SliceInit
    \/ ExternalInit
    \/ InternalInit
    \/ InPlaceInit
    \/ IntoCacheInit
    \/ IntoArrayInit

SortSliceCall ==
    /\ pc = "SortSlice"
    /\ Store(Did(SortSlice(mem, ranges[1]), "network"))
    /\ pc' = "SortSlice returned"
    /\ UNCHANGED <<input, C, lower, quads, iterator, ranges, sl>>

MergeExternalCall ==
    /\ pc = "MergeExternal"
    /\ Store(MergeExternal(mem, ranges[1], ranges[2]))
    /\ pc' = "MergeExternal returned"
    /\ UNCHANGED <<input, C, lower, quads, iterator, ranges, sl>>

MergeInternalCall ==
    /\ pc = "MergeInternal"
    /\ Store(MergeInternal(mem, ranges[1], ranges[2], ranges[3]))
    /\ pc' = "MergeInternal returned"
    /\ UNCHANGED <<input, C, lower, quads, iterator, ranges, sl>>

MergeInPlaceCall ==
    /\ pc = "MergeInPlace"
    /\ Store(MergeInPlace(mem, ranges[1], ranges[2]))
    /\ pc' = "MergeInPlace returned"
    /\ UNCHANGED <<input, C, lower, quads, iterator, ranges, sl>>

MergeIntoCacheCall ==
    /\ pc = "MergeIntoCache"
    /\ Store(MergeIntoCache(mem, C, ranges[1], ranges[2], ranges[3].start))
    /\ pc' = "MergeIntoCache returned"
    /\ UNCHANGED <<input, C, lower, quads, iterator, ranges, sl>>

MergeIntoArrayCall ==
    /\ pc = "MergeIntoArray"
    /\ Store(MergeIntoArray(mem, ranges[1], ranges[2], ranges[3].start))
    /\ pc' = "MergeIntoArray returned"
    /\ UNCHANGED <<input, C, lower, quads, iterator, ranges, sl>>

\* the four searches called on the same range with the same value and hint;
\* each sees the cells of the range only, so that ok turns FALSE at a probe
\* outside [range.start, range.end)
FindCall ==
    /\ pc = "Find"
    /\ \E unique \in 1 .. MaxHint :
          LET range == ranges[1]
              a == [i \in range.start .. range.end - 1 |-> array[i]]
              v == proj(array[0])
              Call(m, what, r) ==
                  Note(Check(m, r.ok), [what |-> what, unique |-> unique, i |-> r.i])
          IN Store(Call(Call(Call(Call(mem,
                   "FindFirstForward", FindFirstForward(a, v, range, unique)),
                   "FindLastForward", FindLastForward(a, v, range, unique)),
                   "FindFirstBackward", FindFirstBackward(a, v, range, unique)),
                   "FindLastBackward", FindLastBackward(a, v, range, unique)))
    /\ pc' = "Find returned"
    /\ UNCHANGED <<input, C, lower, quads, iterator, ranges, sl>>

UnitsNext ==
    \/ FindCall
    \/ SortSliceCall
    \/ MergeExternalCall
    \/ MergeInternalCall
    \/ MergeInPlaceCall
    \/ MergeIntoCacheCall
    \/ MergeIntoArrayCall

Units == UnitsInit /\ [][UnitsNext]_vars

----------------------------------------------------------------------------
(* What the array is measured against *)

\* the input, each key tagged with the position it came from
Expected == [i \in DOMAIN input |-> <<input[i], i>>]

Sorted(a) == \A i, j \in DOMAIN a : i < j => ~less(proj(a[j]), proj(a[i]))

Stable(a) ==
    \A i, j \in DOMAIN a :
        (i < j /\ ~less(proj(a[i]), proj(a[j])) /\ ~less(proj(a[j]), proj(a[i])))
            => a[i][2] < a[j][2]

PermutationOfInput(a) ==
    /\ DOMAIN a = DOMAIN input
    /\ {a[i] : i \in DOMAIN a} = {Expected[i] : i \in DOMAIN input}

Returned == pc = "done"

\* two neighbours of the input are equivalent
HasEquivalent == \E i, j \in DOMAIN input : i < j /\ input[i] = input[j]

----------------------------------------------------------------------------
(* Properties *)

\* C1: when sort returns, the array is in non-decreasing order: for all i < j
\* in [0, N), less(proj(a[j]), proj(a[i])) is false.
SortedOnReturn == Returned => Sorted(array)

SortedOnReturnWitness ==
    /\ Returned
    /\ array # Expected
    /\ Sorted(array)
    /\ {"network", "block", "MergeInternal"} \subseteq did

\* C2: sort is stable: elements with equivalent keys come out in the order
\* they went in, whichever path (size < 4, networks, double merge, single
\* merge, block sort) handled them.
StableOnReturn == Returned => Stable(array)

StableOnReturnWitness ==
    /\ Returned
    /\ HasEquivalent
    /\ array # Expected
    /\ Stable(array)
    /\ {"network", "single", "block"} \subseteq did

\* C3: the array sort returns is a permutation of the input, every input
\* element occurring exactly once, although the fast paths copy elements
\* through the cache and overwrite array cells.
PermutationOnReturn == Returned => PermutationOfInput(array)

PermutationOnReturnWitness ==
    /\ Returned
    /\ PermutationOfInput(array)
    /\ array # Expected
    /\ {"double", "MergeIntoCache", "MergeIntoArray"} \subseteq did

\* C4: the cache size is no correctness parameter: with any cache size put in
\* the place of 512, zero included, sort returns the array sorted, stable and
\* a permutation of the input.
AnyCacheSize ==
    (Returned /\ C # cache_size)
        => (Sorted(array) /\ Stable(array) /\ PermutationOfInput(array))

AnyCacheSizeWitness ==
    /\ Returned
    /\ C = 0
    /\ array # Expected
    /\ Sorted(array) /\ Stable(array) /\ PermutationOfInput(array)
    /\ {"block", "MergeInPlace"} \subseteq did

\* C5, as claimed: at every point where sort or one of its merges calls
\* compare, the array is a permutation of the input.
PermutationAtEveryCompare == perm

\* C5, amended: at every point where sort, a search or a merge calls compare on
\* two array cells the array is a permutation of the input; where an operand of
\* the compare lies in the cache the array need not be one, but every input
\* element is then in the array or in the cache.
HeldAtEveryCompare == whole /\ held

HeldAtEveryCompareWitness ==
    /\ Returned
    /\ torn # << >>
    /\ ~IsPermutation(torn)
    /\ whole /\ held
    /\ "MergeExternal" \in did

\* C6: sort has no runtime error and uses no storage but the array and the
\* cache: every array access has an index in [0, N), every cache access an
\* index in [0, C) of a cell written before it is read, and no range bound
\* underflows.
NoRuntimeError ==
    /\ ok
    /\ DOMAIN array = DOMAIN input
    /\ DOMAIN cache \subseteq 0 .. C - 1

NoRuntimeErrorWitness ==
    /\ Returned
    /\ ok
    /\ C = cache_size
    /\ cache # << >>
    /\ {"double", "MergeIntoCache", "MergeIntoArray"} \subseteq did

\* the loops a level passes through, counted from its end
PhasesLeft ==
    CASE pc = "start" -> 7
      [] pc = "level0" -> 6
      [] pc = "merge" -> 5
      [] pc = "scan" -> 4
      [] pc = "pull" -> 3
      [] pc = "block" -> 2
      [] pc \in {"double", "single", "redistribute"} -> 1
      [] OTHER -> 0

\* what the loop the driver is in has left: items to hand out, or pulls to do
LoopLeft ==
    IF pc \in {"pull", "redistribute"} THEN 2 - sl.pull_index
    ELSE size - iterator.decimal

\* the steps sort has left are bounded by Left: levels, then loops, then passes
Left ==
    IF Returned THEN 0
    ELSE 1 + LoopLeft
           + (size + 1) * (PhasesLeft + 8 * (2 * size + 1 - iterator_length(iterator)))

\* C7: sort terminates on every input: each nextLevel() makes the nominal
\* length strictly larger until it reaches N, and every loop of the driver
\* makes progress: each step leaves strictly less to do, and what is left is
\* never negative.
Terminates ==
    [][/\ Left' < Left
       /\ Left' >= 0
       /\ LoopLeft' >= 0
       /\ (pc = "nextlevel" \/ (pc = "double" /\ pc' = "nextlevel"))
            => iterator_length(iterator') > iterator_length(iterator)
       /\ pc' = "merge" => iterator_length(iterator') < size]_vars

TerminatesWitness ==
    /\ Returned
    /\ iterator_length(iterator) >= size
    /\ {"block", "MergeInPlace", "MergeInternal"} \subseteq did

\* C8: sort is idempotent: on an array already sorted under less and proj,
\* equivalent elements included, it returns with every position holding the
\* element it held before.
Idempotent == (Returned /\ Sorted(Expected)) => array = Expected

IdempotentWitness ==
    /\ Returned
    /\ Sorted(Expected)
    /\ HasEquivalent
    /\ size >= 2 * min_level
    /\ array = Expected

\* the ranges follow each other from 0 on and none is empty
Contiguous(rs) ==
    \A i \in 1 .. Len(rs) :
        /\ rs[i].start = (IF i = 1 THEN 0 ELSE rs[i - 1].end)
        /\ rs[i].start < rs[i].end

\* C9: for N >= 4, at every level, the ranges nextRange() returns from begin()
\* until finished() partition [0, N): the first starts at 0, each starts where
\* the one before ended, none is empty, and finished() is true exactly when
\* the last one ends at N.
RangesPartition ==
    ranges # << >> =>
        /\ Contiguous(ranges)
        /\ ranges[Len(ranges)].end <= size
        /\ finished(iterator) <=> ranges[Len(ranges)].end = size

RangesPartitionWitness ==
    /\ size >= 2 * min_level
    /\ Len(ranges) >= 4
    /\ finished(iterator)
    /\ ranges[Len(ranges)].end = size
    /\ iterator.numerator_step > 0

\* C10: at every level every range nextRange() returns has length length() or
\* length() + 1.
RangeLengths ==
    \A i \in 1 .. Len(ranges) :
        length(ranges[i]) \in {iterator_length(iterator), iterator_length(iterator) + 1}

RangeLengthsWitness ==
    /\ \E i \in 1 .. Len(ranges) : length(ranges[i]) = iterator_length(iterator)
    /\ \E i \in 1 .. Len(ranges) : length(ranges[i]) = iterator_length(iterator) + 1
    /\ iterator_length(iterator) > min_level

\* the ranges rs joined two by two
PairUp(rs) == [k \in 1 .. Len(rs) \div 2 |-> Range(rs[2 * k - 1].start, rs[2 * k].end)]

\* the ranges nextRange() returns at the level of it, from begin() until finished()
LevelSlices(it) == SlicesFrom(begin(it))

\* the cells of r are in order in a
SortedIn(a, r) ==
    \A i, j \in r.start .. r.end - 1 : i < j => ~less(proj(a[j]), proj(a[i]))

\* the ranges still to come at this level, two by two, are each in order; at a
\* block-sort pass, once the internal buffers have been taken off them
PairsToComeSorted ==
    LET rs == SlicesFrom(iterator)
    IN \A k \in 1 .. Len(rs) \div 2 :
          LET st == IF pc = "block" THEN Strip(sl, rs[2 * k - 1], rs[2 * k])
                    ELSE [A |-> rs[2 * k - 1], B |-> rs[2 * k], skip |-> FALSE]
          IN SortedIn(array, st.A) /\ SortedIn(array, st.B)

\* C11: consecutive levels double the slice size exactly: each range of the
\* level after nextLevel() is the union of the 2k-th and (2k+1)-th range of the
\* level below, the ranges the driver gets are those ranges, and every A and B
\* handed to a merge is in order.
LevelsNest ==
    /\ (lower # NoIterator /\ iterator_length(iterator) < size)
          => LevelSlices(iterator) = PairUp(LevelSlices(lower))
    /\ \A i \in 1 .. Len(ranges) : ranges[i] = LevelSlices(iterator)[i]
    /\ pc \in {"single", "double", "scan", "block"} => PairsToComeSorted

LevelsNestWitness ==
    /\ pc = "block"
    /\ lower # NoIterator
    /\ Len(ranges) = 2
    /\ length(ranges[1]) # length(ranges[2])
    /\ Len(LevelSlices(lower)) >= 4
    /\ length(LevelSlices(lower)[1]) # length(LevelSlices(lower)[2])
    /\ LevelSlices(iterator) = PairUp(LevelSlices(lower))

\* a and the input have the same elements in the cells of r
SameElementsIn(a, r) == {a[i][2] : i \in r.start .. r.end - 1} = r.start .. r.end - 1

\* equivalent elements of the cells of r are in the order they had in the input
StableIn(a, r) ==
    \A i, j \in r.start .. r.end - 1 :
        (i < j /\ ~less(proj(a[i]), proj(a[j])) /\ ~less(proj(a[j]), proj(a[i])))
            => a[i][2] < a[j][2]

\* C12: the internal buffers do not outlive a level: when a pass of the merge
\* loop ends (after the insertion sort of buffer2 and the redistribution, at a
\* block-sort level) the array is a permutation of the input and every pair
\* range [A.start, B.end) of the level holds its own elements, sorted and in
\* input order where equivalent.
BuffersRestored ==
    pc = "nextlevel" =>
        /\ PermutationOfInput(array)
        /\ \A k \in 1 .. Len(LevelSlices(iterator)) \div 2 :
              LET r == PairUp(LevelSlices(iterator))[k]
              IN SameElementsIn(array, r) /\ SortedIn(array, r) /\ StableIn(array, r)

BuffersRestoredWitness ==
    /\ pc = "nextlevel"
    /\ {"redistribute", "redistribute back", "insertion_sort", "MergeInternal"} \subseteq did
    /\ Len(LevelSlices(iterator)) >= 4
    /\ array # Expected
    /\ \A k \in 1 .. Len(LevelSlices(iterator)) \div 2 :
          SortedIn(array, PairUp(LevelSlices(iterator))[k])

\* the cells of a outside r hold what they held when the function was called
OutsideUnchanged(a, r) ==
    \A i \in DOMAIN a \ (r.start .. r.end - 1) : a[i] = Expected[i]

\* C13: after the SWAP sequence of a range of 4, 5, 6, 7 or 8 items, whatever
\* the range held, the range is sorted, elements with equivalent keys are in
\* the order they had, and the cells outside the range are unchanged.
NetworksSort ==
    pc = "SortSlice returned" =>
        /\ ok
        /\ SameElementsIn(array, ranges[1])
        /\ SortedIn(array, ranges[1])
        /\ StableIn(array, ranges[1])
        /\ OutsideUnchanged(array, ranges[1])

NetworksSortWitness ==
    /\ pc = "SortSlice returned"
    /\ length(ranges[1]) = 2 * min_level
    /\ \E i \in 1 .. 7 : input[i] > input[i + 1]
    /\ \E i, j \in 1 .. 8 : i # j /\ input[i] = input[j]
    /\ SortedIn(array, ranges[1])
    /\ StableIn(array, ranges[1])

\* C14: every range Iterator(N, 4) produces at level 0 has 4 to 8 items, so
\* that one of the five SWAP networks applies to it; for 4 <= N < 8 there is
\* one range, [0, N), and the array is sorted when sort returns early.
Level0Ranges ==
    /\ pc = "level0" =>
          \A i \in 1 .. Len(ranges) :
              /\ length(ranges[i]) \in min_level .. 2 * min_level
              /\ Network(length(ranges[i])) # << >>
    /\ (size >= min_level /\ size < 2 * min_level /\ (Returned \/ (pc = "level0" /\ finished(iterator))))
          => ranges = <<Range(0, size)>>
    /\ (size >= min_level /\ size < 2 * min_level /\ Returned) => Sorted(array)

Level0RangesWitness ==
    /\ Returned
    /\ size = 2 * min_level - 1
    /\ ranges = <<Range(0, size)>>
    /\ array # Expected
    /\ Sorted(array)
    /\ cache = << >>

\* C15: for N < 4 sort orders the array in place and stably with at most three
\* calls of compare (none for N <= 1, one for N = 2, two or three for N = 3)
\* and touches neither the iterator nor the cache.
SmallSorted ==
    (Returned /\ size < min_level) =>
        /\ Sorted(array) /\ Stable(array) /\ PermutationOfInput(array)
        /\ calls \in (IF size <= 1 THEN {0} ELSE IF size = 2 THEN {1} ELSE {2, 3})
        /\ iterator = NoIterator
        /\ ranges = << >>
        /\ cache = << >>
        /\ did = {"small"}

SmallSortedWitness ==
    /\ Returned
    /\ size = 3
    /\ calls = 3
    /\ array # Expected
    /\ HasEquivalent
    /\ Sorted(array) /\ Stable(array)
    /\ iterator = NoIterator

\* C16: at a level of length L with (L + 1) * 4 <= C and 4 * L <= N the driver
\* takes the ranges four at a time, all four always there; after the pass
\* every [A1.start, B2.end) holds its own elements sorted and stable, and the
\* iterator has gone up two levels, so that the ranges of the next level the
\* driver works on are these groups of four.
DoubleMerges ==
    /\ pc = "double" =>
          /\ (iterator_length(iterator) + 1) * 4 <= C
          /\ iterator_length(iterator) * 4 <= size
          /\ Len(ranges) = 4 * Len(quads)
          /\ \A i \in 1 .. Len(ranges) : length(ranges[i]) > 0 /\ ranges[i].end <= size
          /\ \A k \in 1 .. Len(quads) :
                quads[k] = Range(ranges[4 * k - 3].start, ranges[4 * k].end)
    /\ \A k \in 1 .. Len(quads) :
          SameElementsIn(array, quads[k]) /\ SortedIn(array, quads[k]) /\ StableIn(array, quads[k])
    /\ (quads # << >> /\ pc \in {"merge", "done"}) =>
          IF iterator_length(iterator) < size
          THEN LevelSlices(iterator) = quads
          ELSE quads = <<Range(0, size)>>

DoubleMergesWitness ==
    /\ pc = "merge"
    /\ Len(quads) >= 2
    /\ LevelSlices(iterator) = quads
    /\ array # Expected
    /\ ~Sorted(array)
    /\ {"MergeIntoCache", "MergeIntoArray"} \subseteq did
    /\ \A k \in 1 .. Len(quads) : SortedIn(array, quads[k]) /\ StableIn(array, quads[k])

\* the four ranges the double merge takes next follow one another in order:
\* no first item of B1, A2 or B2 is less than the item before it
NextQuadInOrder ==
    LET rs == SlicesFrom(iterator)
    IN /\ Len(rs) >= 4
       /\ \A i \in 1 .. 3 : ~LessAt(mem, rs[i + 1].start, rs[i].end - 1)

\* C17: when the four ranges A1, B1, A2, B2 the double merge takes are already
\* one sorted run, the pass over them writes no cell of the array and no cell
\* of the cache.
SortedQuadSkipped ==
    [][(pc = "double" /\ ~finished(iterator) /\ NextQuadInOrder)
          => (array' = array /\ cache' = cache /\ "skip" \in did')]_vars

SortedQuadSkippedWitness ==
    /\ pc = "double"
    /\ "skip" \in did
    /\ cache # << >>
    /\ Len(quads) >= 2
    /\ SortedIn(array, quads[Len(quads)])

\* C18: MergeExternal, called with a sorted A held in cache[0 .. |A|) and a
\* sorted B in the array right after the cells of A, leaves in [A.start, B.end)
\* the stable merge of A and B (A's element first where keys are equivalent),
\* every element of B included, and leaves the cache as it was.
ExternalMerges ==
    pc = "MergeExternal returned" =>
        LET A == ranges[1]
            r == Range(ranges[1].start, ranges[2].end)
        IN /\ ok
           /\ SameElementsIn(array, r) /\ SortedIn(array, r) /\ StableIn(array, r)
           /\ OutsideUnchanged(array, r)
           /\ cache = [i \in 0 .. length(A) |->
                          IF i < length(A) THEN Expected[A.start + i] ELSE Expected[0]]

ExternalMergesWitness ==
    /\ pc = "MergeExternal returned"
    /\ length(ranges[1]) = MaxRun
    /\ length(ranges[2]) = MaxRun
    /\ "MergeExternal" \in did
    /\ array # Expected
    /\ \E i \in 1 .. MaxRun, j \in MaxRun + 1 .. 2 * MaxRun : input[i] = input[j]
    /\ SortedIn(array, Range(ranges[1].start, ranges[2].end))
    /\ StableIn(array, Range(ranges[1].start, ranges[2].end))

\* the cell of [A.start, B.end) an element belongs to when MergeInternal is
\* called: the cell of A for the element in the matching cell of the buffer
HomeCell(e, A, buffer) ==
    IF e[2] >= buffer.start /\ e[2] < buffer.start + length(A)
    THEN A.start + (e[2] - buffer.start)
    ELSE e[2]

\* C19: MergeInternal only swaps: called with A's sorted elements in the first
\* |A| cells of a buffer that lies apart from [A.start, B.end), and a sorted B
\* in place, it leaves in [A.start, B.end) the stable merge of A's elements and
\* B, and in the first |A| cells of the buffer, in some order, the elements
\* the cells of A held; the array is a permutation of what it was.
InternalMerges ==
    pc = "MergeInternal returned" =>
        LET A == ranges[1]
            buffer == ranges[3]
            r == Range(ranges[1].start, ranges[2].end)
            cells == r.start .. r.end - 1
            held_A == buffer.start .. buffer.start + length(A) - 1
        IN /\ ok
           /\ {HomeCell(array[i], A, buffer) : i \in cells} = cells
           /\ SortedIn(array, r)
           /\ \A i, j \in cells :
                  (i < j /\ ~less(proj(array[i]), proj(array[j]))
                         /\ ~less(proj(array[j]), proj(array[i])))
                      => HomeCell(array[i], A, buffer) < HomeCell(array[j], A, buffer)
           /\ {array[i][2] : i \in held_A} = A.start .. A.end - 1
           /\ \A i \in DOMAIN array \ (cells \cup held_A) : array[i] = Expected[i]
           /\ IsPermutation(array)

InternalMergesWitness ==
    /\ pc = "MergeInternal returned"
    /\ length(ranges[1]) = MaxRun
    /\ length(ranges[2]) = MaxRun
    /\ ranges[3].start > ranges[2].end - 1
    /\ "MergeInternal" \in did
    /\ \E i \in ranges[1].start .. ranges[2].end - 2 : proj(array[i]) = proj(array[i + 1])
    /\ \E i \in ranges[3].start .. ranges[3].start + MaxRun - 1 : array[i][2] # ranges[1].start + (i - ranges[3].start)
    /\ SortedIn(array, Range(ranges[1].start, ranges[2].end))

\* C20: MergeInPlace, called with two sorted ranges A and B one after the
\* other (either may be empty), leaves in [A.start, B.end) the stable merge of
\* A and B, A's elements before equivalent ones of B, and changes no cell
\* outside that range nor any cell of the cache.
InPlaceMerges ==
    pc = "MergeInPlace returned" =>
        LET r == Range(ranges[1].start, ranges[2].end)
        IN /\ ok
           /\ SameElementsIn(array, r) /\ SortedIn(array, r) /\ StableIn(array, r)
           /\ OutsideUnchanged(array, r)
           /\ cache = << >>

InPlaceMergesWitness ==
    /\ pc = "MergeInPlace returned"
    /\ length(ranges[1]) = MaxRun
    /\ length(ranges[2]) = MaxRun
    /\ "MergeInPlace" \in did
    /\ array # Expected
    /\ \E i \in 1 .. MaxRun, j \in MaxRun + 1 .. 2 * MaxRun : input[i] = input[j] /\ input[j - 1] < input[i]
    /\ StableIn(array, Range(ranges[1].start, ranges[2].end))
    /\ SortedIn(array, Range(ranges[1].start, ranges[2].end))

\* the cells of r in the destination g hold the elements the input has in its
\* cells first .. last, in order, equivalent ones in input order
MergedInto(g, r, first, last) ==
    /\ r.start .. r.end - 1 \subseteq DOMAIN g
    /\ {g[i][2] : i \in r.start .. r.end - 1} = first .. last
    /\ \A i \in r.start .. r.end - 1 : g[i] = Expected[g[i][2]]
    /\ SortedIn(g, r)
    /\ StableIn(g, r)

\* C21: MergeInto, called with two sorted ranges A and B of a source, neither
\* empty, and a destination apart from them, leaves in the |A| + |B| cells of
\* the destination the stable merge of A and B (A's element first where keys
\* are equivalent) and leaves every cell of the source, and every other cell of
\* the destination, as it was.
MergeIntoMerges ==
    /\ pc = "MergeIntoCache returned" =>
          /\ ok
          /\ array = Expected
          /\ MergedInto(cache, ranges[3], ranges[1].start, ranges[2].end - 1)
          /\ DOMAIN cache = 0 .. ranges[3].end - 1
          /\ \A i \in 0 .. ranges[3].start - 1 : cache[i] = Expected[0]
    /\ pc = "MergeIntoArray returned" =>
          /\ ok
          /\ cache = [i \in 0 .. ranges[2].end - 1 |-> Expected[i + 1]]
          /\ MergedInto(array, ranges[3], 1, ranges[2].end)
          /\ OutsideUnchanged(array, ranges[3])

MergeIntoMergesWitness ==
    /\ pc = "MergeIntoCache returned"
    /\ length(ranges[1]) = MaxRun
    /\ length(ranges[2]) = MaxRun
    /\ ranges[3].start = 1
    /\ "MergeIntoCache" \in did
    /\ \E i \in 1 .. MaxRun, j \in MaxRun + 1 .. 2 * MaxRun : input[i] = input[j] /\ input[j - 1] < input[i]
    /\ MergedInto(cache, ranges[3], 1, 2 * MaxRun)
    /\ \E i \in 1 .. 2 * MaxRun : cache[i] # array[i]

\* the lower and the upper bound of v in the sorted cells of r
LowerBoundIn(a, v, r) ==
    r.start + Cardinality({i \in r.start .. r.end - 1 : less(proj(a[i]), v)})

UpperBoundIn(a, v, r) ==
    r.start + Cardinality({i \in r.start .. r.end - 1 : ~less(v, proj(a[i]))})

\* C22: on a sorted range, for every value and every hint unique >= 1,
\* FindFirstForward and FindFirstBackward return what BinaryFirst returns on
\* the whole range, the lower bound, and FindLastForward and FindLastBackward
\* what BinaryLast returns, the upper bound; on an empty range all four return
\* range.start; none probes a cell outside [range.start, range.end).
SearchesAgree ==
    pc = "Find returned" =>
        LET range == ranges[1]
            v == proj(array[0])
            first == BinaryFirst(array, v, range).i
            last == BinaryLast(array, v, range).i
        IN /\ ok
           /\ first = LowerBoundIn(array, v, range)
           /\ last = UpperBoundIn(array, v, range)
           /\ Len(log) = 4
           /\ \A k \in 1 .. 4 :
                 log[k].i = IF log[k].what \in {"FindFirstForward", "FindFirstBackward"}
                            THEN first ELSE last
           /\ length(range) = 0 => \A k \in 1 .. 4 : log[k].i = range.start

SearchesAgreeWitness ==
    /\ pc = "Find returned"
    /\ length(ranges[1]) = MaxSearch
    /\ Len(log) = 4
    /\ log[1].unique = 3
    /\ log[1].what = "FindFirstForward" /\ log[3].what = "FindFirstBackward"
    /\ log[1].i = log[3].i
    /\ log[2].i = log[4].i
    /\ log[1].i > ranges[1].start + 1
    /\ log[2].i > log[1].i + 1
    /\ log[2].i < ranges[1].end - 1

\* what the step last taken came past under the name what
Events(what) == SelectSeq(log, LAMBDA e : e.what = what)

\* the pairs A, B of the level the iterator is at, the internal buffers taken
\* off them
StrippedPairs ==
    LET rs == LevelSlices(iterator)
    IN [k \in 1 .. Len(rs) \div 2 |-> Strip(sl, rs[2 * k - 1], rs[2 * k])]

\* C23: after buffer_size = buffer1.length() and block_size = L / buffer_size
\* + 1, (L + 1) / block_size <= buffer_size, for the buffer the level has and
\* for a buffer1 of any length from 1 to L; so no A of the level has more full
\* blocks than buffer1 has cells, and each tag is taken from a cell of buffer1.
TagsFit ==
    pc = "block" =>
        LET L == iterator_length(iterator)
        IN /\ sl.buffer_size = length(sl.buffer1)
           /\ sl.buffer_size >= 1
           /\ sl.block_size = L \div sl.buffer_size + 1
           /\ (L + 1) \div sl.block_size <= sl.buffer_size
           /\ \A b \in 1 .. L :
                 LET s == Adjust([sl EXCEPT !.buffer1 = Range(0, b)], L)
                 IN (L + 1) \div s.block_size <= s.buffer_size
           /\ \A k \in 1 .. Len(StrippedPairs) :
                 length(StrippedPairs[k].A) \div sl.block_size <= length(sl.buffer1)
           /\ \A k \in 1 .. Len(Events("tag")) :
                 /\ Events("tag")[k].indexA >= sl.buffer1.start
                 /\ Events("tag")[k].indexA < sl.buffer1.end

TagsFitWitness ==
    /\ pc = "block"
    /\ Len(Events("tag")) >= 1
    /\ Events("tag")[1].indexA = sl.buffer1.start
    /\ sl.buffer_size < SlowInit(iterator_length(iterator), C).buffer_size
    /\ sl.block_size > SlowInit(iterator_length(iterator), C).block_size
    /\ \E k \in 1 .. Len(StrippedPairs) :
          length(StrippedPairs[k].A) \div sl.block_size = 1

\* each cell of r holds less than the next
IncreasingIn(a, r) ==
    \A i \in r.start .. r.end - 2 : less(proj(a[i]), proj(a[i + 1]))

\* the cells the pull p has filled: count cells from p.to on when the values
\* went to the start of an A, count cells up to p.to when to the end of a B
PulledTo(p) ==
    IF p.from < p.to THEN Range(p.to - p.count, p.to) ELSE Range(p.to, p.to + p.count)

\* the pulls of the level that hold values
Pulls == {i \in 1 .. 2 : sl.pull[i].count > 0}

\* the internal buffers of the level that exist
Buffers == {b \in {sl.buffer1, sl.buffer2} : length(b) > 0}

\* C24: when the pull-out loop of a slow-path level is done, buffer1, and
\* buffer2 when it exists, lie in the cells a pull has filled, which start at
\* the start of an A of the level or end at the end of a B; each buffer holds
\* strictly increasing keys (no two equivalent); the array is a permutation of
\* the input; and what is left of every A and B is in order.
BuffersPulled ==
    (pc = "block" /\ ranges = << >>) =>
        LET rs == LevelSlices(iterator)
        IN /\ PermutationOfInput(array)
           /\ length(sl.buffer1) >= 1
           /\ \A i \in Pulls :
                 LET p == sl.pull[i]
                 IN \E k \in 1 .. Len(rs) \div 2 :
                       /\ p.range.start = rs[2 * k - 1].start
                       /\ IF p.from < p.to THEN p.to = rs[2 * k].end
                          ELSE p.to = rs[2 * k - 1].start
                       /\ PulledTo(p).start >= p.range.start
                       /\ PulledTo(p).end <= rs[2 * k].end
           /\ \A b \in Buffers :
                 /\ \E i \in Pulls : /\ PulledTo(sl.pull[i]).start <= b.start
                                     /\ b.end <= PulledTo(sl.pull[i]).end
                 /\ IncreasingIn(array, b)
           /\ length(sl.buffer1) + length(sl.buffer2)
                 = sl.pull[1].count + sl.pull[2].count
           /\ (length(sl.buffer2) > 0 =>
                 (sl.buffer1.end <= sl.buffer2.start \/ sl.buffer2.end <= sl.buffer1.start))
           /\ \A k \in 1 .. Len(StrippedPairs) :
                 /\ SortedIn(array, StrippedPairs[k].A)
                 /\ SortedIn(array, StrippedPairs[k].B)

BuffersPulledWitness ==
    /\ pc = "block"
    /\ ranges = << >>
    /\ length(sl.buffer1) >= 3
    /\ length(sl.buffer2) >= 3
    /\ IncreasingIn(array, sl.buffer1)
    /\ IncreasingIn(array, sl.buffer2)
    /\ \E i \in Pulls : sl.pull[i].from < sl.pull[i].to
    /\ \E i \in Pulls : sl.pull[i].from > sl.pull[i].to
    /\ \E k \in 1 .. Len(LevelSlices(iterator)) :
          ~SortedIn(array, LevelSlices(iterator)[k])

\* no cell belongs to both r and b
Apart(r, b) == r.end <= b.start \/ b.end <= r.start \/ length(r) = 0 \/ length(b) = 0

\* what a pass of the block-sort loop does after stripping: an emptied pair is
\* passed over before anything is compared, and the in-order test reads the
\* first cell of a B that is not empty
StripSkipsAndReads ==
    /\ \A k \in 1 .. Len(Events("strip")) :
          LET e == Events("strip")[k]
          IN /\ (length(e.A) = 0 \/ length(e.B) = 0) => e.skip
             /\ e.skip => Len(log) = 1
    /\ \A k \in 1 .. Len(Events("read")) :
          LET e == Events("read")[k]
          IN e.cell = e.A.end /\ e.A.end = e.B.start /\ e.B.start < e.B.end

\* C25: in a pass of the block-sort loop the stripped A and B that
\* are compared, rotated or merged hold no cell of buffer1 or buffer2, an
\* emptied pair is skipped, and array[A.end] is read only as the first cell of
\* a B that is not empty.
StrippedClearOfBuffers ==
    pc = "block" =>
        /\ StripSkipsAndReads
        /\ \A k \in 1 .. Len(Events("strip")) :
              LET e == Events("strip")[k]
              IN ~e.skip => \A b \in {sl.buffer1, sl.buffer2} : Apart(e.A, b) /\ Apart(e.B, b)

\* what does hold of the stripping: the same, but for a buffer1 of one cell
\* chosen at the start of an A as the largest buffer found: nothing is pulled
\* for it (from = to), neither strip test (from > to, from < to) takes it off
\* and that A, which is compared and may be rotated, keeps the cell.
StrippedClearOfPulled ==
    pc = "block" =>
        /\ StripSkipsAndReads
        /\ \A k \in 1 .. Len(Events("strip")) :
              LET e == Events("strip")[k]
              IN ~e.skip =>
                    \A b \in {sl.buffer1, sl.buffer2} :
                        \/ Apart(e.A, b) /\ Apart(e.B, b)
                        \/ /\ b = sl.buffer1
                           /\ length(b) = 1
                           /\ b.start = e.A.start
                           /\ sl.pull[1].from = sl.pull[1].to
                           /\ Apart(e.B, b)

StrippedClearOfPulledWitness ==
    /\ pc = "block"
    /\ Len(Events("strip")) = 1
    /\ Len(Events("read")) = 1
    /\ Len(Events("tag")) >= 1
    /\ length(sl.buffer2) > 0
    /\ Events("strip")[1].A.start = sl.buffer2.end
    /\ Len(ranges) >= 4

\* the cells the tagging loop has swapped with buffer1: the first cell of each
\* full A block, in block order
Heads(e) == {i \in e.from .. e.to - 1 : (i - e.from) % sl.block_size = 0}
HeadOf(e, k) == e.from + k * sl.block_size

\* C26: in a pass of the block-sort loop that tags, block k of A gets the k-th
\* value of buffer1, so that the heads of the blocks are strictly increasing in
\* block order; the block with the minimum head chosen at the k-th drop is
\* block k, the leftmost of the original blocks not dropped yet; and when the
\* pass is over buffer1 holds the values it held before it, in the same order.
TagsUndone ==
    pc = "block" =>
        \A n \in 1 .. Len(Events("tagged")) :
            LET e == Events("tagged")[n]
                blocks == Cardinality(Heads(e))
            IN /\ Len(Events("tag")) = blocks
               /\ Len(Events("drop")) = blocks
               /\ \A k \in 0 .. blocks - 1 :
                     /\ e.after[HeadOf(e, k)] = e.before[sl.buffer1.start + k]
                     /\ e.after[sl.buffer1.start + k] = e.before[HeadOf(e, k)]
                     /\ k > 0 => less(proj(e.after[HeadOf(e, k - 1)]),
                                      proj(e.after[HeadOf(e, k)]))
               /\ \A k \in 0 .. blocks - 1 :
                     LET d == Events("drop")[k + 1]
                     IN /\ d.indexA = sl.buffer1.start + k
                        /\ d.a[d.minA] = e.before[sl.buffer1.start + k]
                        /\ \A t \in 1 .. sl.block_size - 1 :
                              d.a[d.minA + t] = e.before[HeadOf(e, k) + t]
                        /\ \A j \in 0 .. blocks - 1 - k - 1 :
                              ~less(proj(d.a[d.blockA.start + j * sl.block_size]),
                                    proj(d.a[d.minA]))
               /\ \A i \in sl.buffer1.start .. sl.buffer1.end - 1 : array[i] = e.before[i]

TagsUndoneWitness ==
    /\ pc = "block"
    /\ Len(Events("tagged")) = 1
    /\ Len(Events("drop")) = 2
    /\ Events("drop")[1].minA # Events("drop")[1].blockA.start
    /\ \A i \in sl.buffer1.start .. sl.buffer1.end - 1 :
          array[i] = Events("tagged")[1].before[i]
    /\ array # Events("tagged")[1].before

\* the buffer_size the level asked for before the scan
Requested == SlowInit(iterator_length(iterator), C).buffer_size

\* C27, as claimed: a local merge of a slow-path level is a MergeInPlace only
\* when buffer1 has come out shorter than the buffer_size the level asked for.
InPlaceOnlyShortOfBuffer1 ==
    (pc = "block" /\ Len(Events("MergeInPlace")) > 0) => length(sl.buffer1) < Requested

\* C27, amended: a local merge of a slow-path level is a MergeInPlace only
\* when the level has no second buffer (the scan found no buffer2, whether or
\* not buffer1 is as long as asked for) and the A block does not fit into the
\* cache; at a level that has a buffer2 every local merge is a MergeExternal
\* or a MergeInternal.
InPlaceOnlyWithoutBuffer2 ==
    pc = "block" =>
        /\ \A k \in 1 .. Len(Events("MergeInPlace")) :
              /\ length(sl.buffer2) = 0
              /\ length(Events("MergeInPlace")[k].A) > C
        /\ \A k \in 1 .. Len(Events("MergeInternal")) :
              /\ length(sl.buffer2) > 0
              /\ length(Events("MergeInternal")[k].A) > C
        /\ \A k \in 1 .. Len(Events("MergeExternal")) :
              length(Events("MergeExternal")[k].A) <= C
        /\ length(sl.buffer2) > 0 => length(sl.buffer1) >= Requested

InPlaceOnlyWithoutBuffer2Witness ==
    /\ pc = "block"
    /\ Len(Events("MergeInPlace")) > 0
    /\ length(sl.buffer2) = 0
    /\ length(sl.buffer1) = Requested
    /\ array # Expected

\* the pull the redistribution loop has just been through
LastPull == sl.pull[sl.pull_index]

\* C28, as claimed: while a pull is redistributed, the hint unique handed to
\* FindFirstForward / FindLastBackward is halved from each value put back to
\* the next.
HintHalved ==
    (pc = "redistribute" /\ sl.pull_index >= 1) =>
        \A k \in 1 .. Len(log) - 1 : log[k + 1].unique = log[k].unique \div 2

\* C28, amended: while a pull is redistributed, the hint unique handed to
\* FindFirstForward / FindLastBackward is twice the pull's count for the first
\* value put back and 2 less from each value to the next, down to 2 for the
\* last of the count values.
HintLessTwo ==
    (pc = "redistribute" /\ sl.pull_index >= 1) =>
        /\ Len(log) = (IF LastPull.from = LastPull.to THEN 0 ELSE LastPull.count)
        /\ \A k \in 1 .. Len(log) :
              /\ log[k].what = (IF LastPull.from > LastPull.to
                                THEN "FindFirstForward" ELSE "FindLastBackward")
              /\ log[k].unique = 2 * LastPull.count - 2 * (k - 1)
        /\ \A k \in 1 .. Len(log) - 1 : log[k + 1].unique = log[k].unique - 2

HintLessTwoWitness ==
    /\ pc = "redistribute"
    /\ sl.pull_index = 2
    /\ Len(log) = 3
    /\ log[1].what = "FindLastBackward"
    /\ log[1].unique = 6
    /\ log[2].unique = 4
    /\ log[3].unique = 2

\* the least r with r * r >= x
CeilSqrt(x) == IF sqrt(x) * sqrt(x) = x THEN sqrt(x) ELSE sqrt(x) + 1

\* C29, as claimed: at a slow-path level of nominal length L the block size
\* the A and B sub-ranges are cut with is the ceiling of sqrt(L).
BlockIsCeilSqrt ==
    pc = "block" => sl.block_size = CeilSqrt(iterator_length(iterator))

\* C29, amended: at a slow-path level of nominal length L the block size the
\* A and B sub-ranges are cut with is L / buffer1.length() + 1: the floor of
\* sqrt(L), which the level starts from, when buffer1 has the length asked
\* for, L / floor(sqrt(L)) + 1, more when buffer1 came out shorter and no
\* more when it came out longer.
BlockIsQuotient ==
    LET L == iterator_length(iterator)
    IN /\ pc \in {"scan", "pull"} =>
             /\ sl.block_size = sqrt(L)
             /\ sl.buffer_size = L \div sqrt(L) + 1
       /\ pc = "block" =>
             /\ sl.block_size = L \div length(sl.buffer1) + 1
             /\ length(sl.buffer1) = Requested => sl.block_size = sqrt(L)
             /\ length(sl.buffer1) < Requested => sl.block_size > sqrt(L)
             /\ length(sl.buffer1) > Requested => sl.block_size <= sqrt(L)

BlockIsQuotientWitness ==
    /\ pc = "block"
    /\ iterator_length(iterator) = 2 * min_level
    /\ length(sl.buffer1) = Requested
    /\ sl.block_size = 2
    /\ CeilSqrt(iterator_length(iterator)) = 3
    /\ Len(Events("tag")) >= 1

----------------------------------------------------------------------------
\* the searches the step last taken has called, with the hint each was given
Searches ==
    SelectSeq(log, LAMBDA e : e.what \in {"FindFirstForward", "FindLastForward",
                                          "FindFirstBackward", "FindLastBackward"})

\* C30: sort never divides by zero: an Iterator is built only for N >= 4 and
\* its denominator is at least 1, every call of a Find* search in the scan,
\* the pulling out and the redistribution is given unique >= 1, block_size is
\* at least 1 all through a slow-path level, and buffer1 holds at least one
\* cell when block_size is computed again from its length.
NoDivisionByZero ==
    /\ iterator # NoIterator =>
          /\ size >= min_level
          /\ iterator.denominator = iterator.power_of_two \div min_level
          /\ iterator.denominator >= 1
    /\ \A k \in 1 .. Len(Searches) : Searches[k].unique >= 1
    /\ pc \in {"scan", "pull", "block", "redistribute"} => sl.block_size >= 1
    /\ pc = "pull" => length(sl.buffer1) >= 1

NoDivisionByZeroWitness ==
    /\ pc = "pull"
    /\ iterator.denominator = 2
    /\ sl.block_size = 2
    /\ length(sl.buffer1) >= 1
    /\ \E k \in 1 .. Len(Searches) : /\ Searches[k].unique = 1
                                     /\ length(Searches[k].range) > 1

=============================================================================
